---- MODULE Spec2Model ----
(***************************************************************************)
(* A model of moatless-testbeds: the sandbox orchestrator (TestbedManager), *)
(* the in-sandbox execution server, the readiness waits, the execution      *)
(* poll loops and the evaluation pipeline.                                  *)
(*                                                                          *)
(* Each subsystem has its own specification over the shared variables; a    *)
(* specification leaves the variables of the other subsystems at their      *)
(* initial value.                                                           *)
(*   Spec       the orchestrator, one manager call at a time                *)
(*   SpecApi    Spec with the sandbox calls the control plane proxies       *)
(*   SpecConc   two callers inside get_or_create_testbed, one cluster API   *)
(*              call per step                                               *)
(*   SpecExec   the in-sandbox server's POST /exec handler threads          *)
(*   SpecReady  the three readiness waits                                   *)
(*   SpecPoll   the three execution poll loops                              *)
(*   SpecEval   the three run_evaluation pipelines                          *)
(*   SpecGrade  the grading of a test log (TestSpec.get_pred_report)        *)
(*   SpecFile   file transfer: client, sandbox server, container            *)
(*   SpecRetry  the protocol client's request loop                          *)
(*   SpecFault  create and delete with cluster API calls that fail, and the *)
(*              bulk deletes                                                *)
(*   SpecTree   the working tree of one sandbox over successive runs        *)
(*   SpecIgnore the ignore-list in run_tests and run_evaluation             *)
(*   SpecBlock  the blocking operations other than execution polling, with  *)
(*              weak fairness of their steps                                *)
(*   SpecParse  the log parsers on one line of test output                  *)
(*   SpecStitch parse_log_pytest on a whole log, with its failures section   *)
(*   SpecDjango parse_log_django on a whole log                               *)
(*   SpecArchive the in-sandbox Testbed.run_evaluation and its log archival    *)
(*   SpecSteps  the order of the steps of a run_evaluation call              *)
(*   SpecSubmit  the submissions a sandbox receives for one call of the client *)
(*   SpecHandler the run-tests and run-evaluation handlers after their wait *)
(*   SpecPatch   the patch-apply commands and the working tree they leave   *)
(*   SpecContext the sandbox of a with-statement over an SDK or a client    *)
(*   SpecWrite   write_file of the container and its read-back              *)
(*   SpecZmq     requests and replies over the ZeroMQ REQ/REP sockets       *)
(*   SpecStatus  the status the orchestrator reports for a sandbox          *)
(*   SpecClient  create_client on a sandbox of another user                 *)
(*   SpecDelete  the deletions of one owner and the resources of others     *)
(*   SpecGet     the lookups of a sandbox by its owner and by others        *)
(***************************************************************************)
EXTENDS Integers, Sequences, FiniteSets, TLC

VARIABLES
    jobs,       \* cluster: job name -> value of its user-id label, or NoJob
    services,   \* cluster: service name -> "None" | "Pending" (no cluster_ip) | "Running"
    pods,       \* cluster: job name -> phase of the job's pod, "None" when no pod is listed
    health,     \* sandbox: whether GET /health answers 200 {"status": "OK"}
    sbxWriter,  \* sandbox: the caller whose proxied exec or file write it last carried out
    ret,        \* the outcome of the last orchestrator call
    cpc,        \* SpecConc: each caller's position inside get_or_create_testbed
    clocal,     \* SpecConc: each caller's local variables
    execs,      \* SpecExec: each POST /exec request's handler thread
    sbxLog,     \* SpecExec: the commands the sandbox has run, in order
    wait,       \* SpecReady: the readiness wait in progress
    poll,       \* SpecPoll: the poll loop in progress
    run,        \* SpecEval: the run_evaluation call in progress
    grade,      \* SpecGrade: the last call of get_pred_report, input and output
    file,       \* SpecFile: the sandbox's files and the last file transfer call
    req,        \* SpecRetry: the _request call in progress
    bulk,       \* SpecFault: the last bulk deletion, what it tried and what it returned
    tree,       \* SpecTree: the working tree of a sandbox over successive runs
    ign,        \* SpecIgnore: the last run_tests or run_evaluation call and its ignore-list
    blk,       \* SpecBlock: the blocking operation in progress
    plog,      \* SpecParse: the last call of a log parser, its input and what came of it
    stitch,    \* SpecStitch: the last parse_log_pytest call on a whole log, input and output
    dj,        \* SpecDjango: the last parse_log_django call, input and output
    arch,      \* SpecArchive: the in-sandbox Testbed.run_evaluation call in progress
    steps,     \* SpecSteps: the steps of the run_evaluation call in progress, in order
    sub,       \* SpecSubmit: the call of the protocol client in progress and what reached the sandbox
    hdl,       \* SpecHandler: the run-tests or run-evaluation handler in progress
    pa,        \* SpecPatch: the patch-apply commands in progress and the working tree
    ctx,       \* SpecContext: the with-statement in progress and its sandbox
    wr,        \* SpecWrite: the write_file call in progress and what the pod's file holds
    zq          \* SpecZmq: the REQ socket of the client, the requests and replies under way

orchVars == <<jobs, services, pods, health, sbxWriter, ret>>
concVars == <<cpc, clocal>>
execVars == <<execs, sbxLog>>
laterVars == <<tree, ign, blk, plog, stitch, dj, arch, steps, sub, hdl, pa, ctx, wr, zq>>
pureVars == <<grade, file, req, bulk, laterVars>>
baseVars == <<orchVars, concVars, execVars, wait, poll, run>>
sideVars == <<execs, sbxLog, wait, poll, run, pureVars>>
vars == <<jobs, services, pods, health, sbxWriter, ret, cpc, clocal,
          execs, sbxLog, wait, poll, run, grade, file,
          req, bulk, tree, ign, blk, plog, stitch, dj, arch, steps, sub, hdl, pa, ctx, wr, zq>>

----------------------------------------------------------------------------
(* Bounds and the small sets the inputs are drawn from.                     *)

\* number of distinct random suffixes _generate_kubernetes_like_suffix can draw
NumSuffixes == 2

Users == {"u1", "u2"}
\* One task instance: the job name embeds the instance id, so testbeds of
\* different instances share neither a name nor a label match.
Instances == {"i1"}
Suffixes == 1..NumSuffixes

NoJob == "NoJob"
Nobody == "Nobody"
NoInstance == "NoInstance"
NoId == <<"none", 0>>

\* manager.py:310-313: f"{instance_name}-testbed-{suffix}"
generate_test_id(instance_id, suffix) == <<instance_id, suffix>>

TestbedIds == {generate_test_id(i, s) : i \in Instances, s \in Suffixes}

\* the instance-id label of the job (manager.py:113, 123)
InstanceLabel(testbed_id) == testbed_id[1]

----------------------------------------------------------------------------
(* Orchestrator: reads of the cluster.  A cluster state c is a record of the *)
(* five cluster variables, so that one manager call can chain several       *)
(* methods (create_client calls delete_testbed, then create_testbed).       *)

Cluster ==
    [jobs |-> jobs, services |-> services, pods |-> pods, health |-> health,
     sbxWriter |-> sbxWriter]

\* manager.py:356-365: the job (its user-id label), or None on 404
get_job(c, testbed_id) == c.jobs[testbed_id]

\* manager.py:523-532: the service, or None on 404
get_service(c, testbed_id) == c.services[testbed_id]

\* manager.py:434-446
get_service_status(c, testbed_id) ==
    CASE c.services[testbed_id] = "None" -> "Unknown"
      [] c.services[testbed_id] = "Running" -> "Running"
      [] OTHER -> "Pending"

\* manager.py:368-374: phase of the first listed pod, "Unknown" when none is listed
PodStatus(c, job_name) ==
    IF c.pods[job_name] = "None" THEN "Unknown" ELSE c.pods[job_name]

\* manager.py:367-396.  The health probe answers OK exactly when health holds; a
\* 500, a payload without status OK and a ConnectionError all give "Pending".
read_testbed_status(c, job_name) ==
    IF PodStatus(c, job_name) = "Running" /\ get_service_status(c, job_name) = "Running"
    THEN IF c.health[job_name] THEN "Running" ELSE "Pending"
    ELSE IF PodStatus(c, job_name) = "Pending" \/ get_service_status(c, job_name) = "Pending"
         THEN "Pending"
         ELSE "Unknown"

\* manager.py:398-432: None when no pod is listed for the job
read_testbed_status_detailed(c, job_name) ==
    IF c.pods[job_name] = "None" THEN "None" ELSE "status"

\* manager.py:197, 217, 248: `not job or job.metadata.labels.get("user-id") != user_id`
NotOwned(c, testbed_id, user_id) ==
    get_job(c, testbed_id) = NoJob \/ get_job(c, testbed_id) # user_id

\* the result of a manager method: the cluster it leaves, what it returns or
\* raises, and the testbed id it returns (NoId when it returns none)
Result(c, out, id) == [c |-> c, out |-> out, id |-> id]

----------------------------------------------------------------------------
(* Orchestrator: the manager's methods, as functions of the cluster state.  *)

\* manager.py:137-192.  suffix is the random suffix drawn by _generate_test_id,
\* ip the state the new service is created in.  The name carries no user id and
\* the suffix is random, so create_namespaced_job answers Conflict only when the
\* drawn name is taken.
create_testbed(c, instance_id, user_id, suffix, ip) ==
    LET testbed_id == generate_test_id(instance_id, suffix) IN
    IF c.jobs[testbed_id] # NoJob
    THEN Result(c, "ValueError", NoId)
    ELSE LET c1 == [c EXCEPT !.jobs[testbed_id] = user_id] IN
         IF c1.services[testbed_id] # "None"
         THEN Result(c1, "ValueError", NoId)
         ELSE Result([c1 EXCEPT !.services[testbed_id] = ip], "ok", testbed_id)

\* manager.py:122: the jobs of the list carrying both labels
MatchingJobs(c, instance_id, user_id) ==
    {id \in TestbedIds : InstanceLabel(id) = instance_id /\ c.jobs[id] = user_id}

\* manager.py:119-135.  list_namespaced_job answers in name order; the loop
\* returns the first matching job whose status is not "Unknown" and otherwise
\* falls through to create_testbed (nothing is deleted).
get_or_create_testbed(c, instance_id, user_id, suffix, ip) ==
    LET usable == {id \in MatchingJobs(c, instance_id, user_id) :
                      read_testbed_status(c, id) # "Unknown"}
    IN IF usable # {}
       THEN Result(c, "ok", CHOOSE id \in usable : \A o \in usable : id[2] <= o[2])
       ELSE create_testbed(c, instance_id, user_id, suffix, ip)

\* get_testbed without the test of the user-id label
get_testbed_any_owner(c, testbed_id, user_id) ==
    IF get_job(c, testbed_id) = NoJob
    THEN Result(c, "None", NoId)
    ELSE Result(c, read_testbed_status_detailed(c, testbed_id), NoId)

\* manager.py:194-200
get_testbed(c, testbed_id, user_id) ==
    IF NotOwned(c, testbed_id, user_id)
    THEN Result(c, "None", NoId)
    ELSE Result(c, read_testbed_status_detailed(c, testbed_id), NoId)

\* manager.py:245-282.  The ValueError of line 249 is caught by `except Exception`
\* and re-raised as RuntimeError; a 404 of the service deletion is caught by the
\* ApiException handler, which logs and returns None without deleting the job.
delete_testbed(c, testbed_id, user_id) ==
    IF NotOwned(c, testbed_id, user_id)
    THEN Result(c, "RuntimeError", NoId)
    ELSE IF c.services[testbed_id] = "None"
         THEN Result(c, "None", NoId)
         ELSE Result([c EXCEPT !.services[testbed_id] = "None",
                               !.jobs[testbed_id] = NoJob,
                               !.pods[testbed_id] = "None",
                               !.health[testbed_id] = FALSE,
                               !.sbxWriter[testbed_id] = Nobody],
                     "ok", NoId)

\* create_client with the deletion of line 220 carried out whoever owns the job
create_client_deleting_any_owner(c, testbed_id, instance_id, user_id, suffix, ip) ==
    IF NotOwned(c, testbed_id, user_id) \/ get_service(c, testbed_id) = "None"
    THEN LET d == IF get_job(c, testbed_id) # NoJob
                  THEN delete_testbed(c, testbed_id, get_job(c, testbed_id))
                  ELSE Result(c, "None", NoId)
         IN IF d.out = "RuntimeError"
            THEN Result(d.c, "RuntimeError", NoId)
            ELSE IF instance_id = NoInstance
                 THEN Result(d.c, "ValueError", NoId)
                 ELSE LET r == create_testbed(d.c, instance_id, user_id, suffix, ip) IN
                      IF r.out # "ok"
                      THEN Result(r.c, r.out, NoId)
                      ELSE Result(r.c, "client", testbed_id)
    ELSE Result(c, "client", testbed_id)

\* manager.py:205-243.  The client is bound to the testbed_id given, also after
\* create_testbed made a testbed under a new name.
create_client(c, testbed_id, instance_id, user_id, suffix, ip) ==
    IF NotOwned(c, testbed_id, user_id) \/ get_service(c, testbed_id) = "None"
    THEN LET d == IF get_job(c, testbed_id) # NoJob
                  THEN delete_testbed(c, testbed_id, user_id)
                  ELSE Result(c, "None", NoId)
         IN IF d.out = "RuntimeError"
            THEN Result(d.c, "RuntimeError", NoId)
            ELSE IF instance_id = NoInstance
                 THEN Result(d.c, "ValueError", NoId)
                 ELSE LET r == create_testbed(d.c, instance_id, user_id, suffix, ip) IN
                      IF r.out # "ok"
                      THEN Result(r.c, r.out, NoId)
                      ELSE Result(r.c, "client", testbed_id)
    ELSE Result(c, "client", testbed_id)

\* manager.py:562-564: user_id is not used
get_testbed_status(c, testbed_id, user_id) ==
    Result(c, read_testbed_status(c, testbed_id), NoId)

\* manager.py:534-540: the URL, or an exception (404 ApiException, or ValueError
\* when the service has no cluster_ip)
get_testbed_url(c, testbed_id) ==
    IF c.services[testbed_id] = "Running" THEN "url" ELSE "raise"

\* the sandbox answers a request when its pod runs and its server is up
Reachable(c, testbed_id) ==
    c.pods[testbed_id] = "Running" /\ c.health[testbed_id]

\* manager.py:542-560 behind api/main.py:239-290: proxy_exec, proxy_exec_status,
\* proxy_get_file and proxy_save_file take the testbed id and no user id; the
\* handler turns every exception into a 500.  writes: the request changes the
\* sandbox (exec submit, file write).
proxy(c, testbed_id, user_id, writes) ==
    IF get_testbed_url(c, testbed_id) = "raise" \/ ~Reachable(c, testbed_id)
    THEN Result(c, "500", NoId)
    ELSE Result(IF writes THEN [c EXCEPT !.sbxWriter[testbed_id] = user_id] ELSE c,
                "200", NoId)

\* what the last call was and what it gave its caller
Outcome(op, caller, target, r) ==
    [op |-> op, caller |-> caller, target |-> target, out |-> r.out, id |-> r.id]

----------------------------------------------------------------------------
(* The state each subsystem starts in.                                      *)

\* number of POST /exec requests the in-sandbox server is sent
NumRequests == 2
\* number of commands in the script of a request
NumCommands == 2
Requests == 1..NumRequests

\* a handler thread of POST /exec: its position, the commands of its script the
\* sandbox has run, whether another execution was non-terminal when the request
\* came in, and the status it answered
ExecThread(pc, ran, busy, status) ==
    [pc |-> pc, ran |-> ran, busy |-> busy, status |-> status]

ExecIdle ==
    /\ execs = [r \in Requests |-> ExecThread("idle", 0, FALSE, "none")]
    /\ sbxLog = <<>>

\* a readiness wait: the function called, its position, time.time() - start_time,
\* not_found_count, whether a health probe of this wait has answered status OK,
\* whether the loop ended because the deadline passed, and what the caller got
Wait(impl, pc, elapsed, not_found_count, probed, deadline, out) ==
    [impl |-> impl, pc |-> pc, elapsed |-> elapsed, not_found_count |-> not_found_count,
     probed |-> probed, deadline |-> deadline, out |-> out]

WaitIdle == wait = Wait("none", "idle", 0, 0, FALSE, FALSE, "none")

\* a poll loop: the function called, its position, the status of the last
\* response, the time since the loop began, whether a status request was sent
\* after the deadline, the state of the Execution in the sandbox, and what the
\* caller got
Poll(impl, pc, status, clock, late, exec, out) ==
    [impl |-> impl, pc |-> pc, status |-> status, clock |-> clock, late |-> late,
     exec |-> exec, out |-> out]

PollIdle == poll = Poll("none", "idle", "none", 0, FALSE, "none", "none")

\* a run_evaluation call: the function called, the patch evaluated, its position,
\* whether the patch-apply step emitted the failure marker, whether a test
\* execution was issued, the status of the last response about it, the diff taken
\* before the tests, and what the caller got
Run(impl, patch, pc) ==
    [impl |-> impl, patch |-> patch, pc |-> pc, marker |-> FALSE, tests |-> FALSE,
     status |-> "none", diff_before |-> "none", out |-> "none",
     patch_applied |-> FALSE, resolved |-> FALSE]

RunIdle == run = Run("none", "none", "idle")

\* no log graded yet
GradeIdle == grade = [pc |-> "idle"]

\* longest text (in characters) and longest raw payload (in bytes) transferred
MaxContentLen == 2

\* the content of a path that holds no file: no payload is this sequence
NoFile == <<-1>>
\* one path under the container's shared_dir and one outside of it
SharedPaths == {"/shared/f"}
Paths == SharedPaths \cup {"/testbed/f"}

\* no file in the sandbox, no transfer yet
FileIdle ==
    file = [fs |-> [p \in Paths |-> NoFile], wrote |-> [p \in Paths |-> NoFile],
            op |-> "none", path |-> "none", out |-> [kind |-> "none"]]

\* a _request call: its position, its parameters, the loop's variables, the
\* number of requests sent, the outcome of the last one, the time spent, and
\* what the call raised
Req(pc, max_retries, operation_timeout) ==
    [pc |-> pc, max_retries |-> max_retries, operation_timeout |-> operation_timeout,
     retries |-> 0, retry_delay |-> 1, attempts |-> 0, last |-> "none",
     elapsed |-> 0, out |-> "none"]

ReqIdle == req = Req("idle", 0, 0)

\* no bulk deletion yet
BulkIdle ==
    bulk = [op |-> "none", user |-> Nobody, left |-> {},
            succeeded |-> 0, deleted_count |-> 0]

\* a sandbox fresh from its image: the working tree is the base commit, no run
\* has begun
TreeIdle == tree = [pc |-> "idle", modified |-> {}, patch |-> {}, runs |-> 0]

\* no run_tests or run_evaluation call yet
IgnIdle == ign = [pc |-> "idle"]

\* a blocking operation: the function called, its position, the passes of its
\* loop so far, its timeout (0 when it has none), and what the caller got
Blk(op, pc, timeout) ==
    [op |-> op, pc |-> pc, passes |-> 0, timeout |-> timeout, out |-> "none"]

BlkIdle == blk = Blk("none", "idle", 0)

\* what a parser call comes to: the line is skipped, it gives a TestResult, or
\* the parser raises (status then names the exception)
Out(kind, status, name, file_path, method) ==
    [kind |-> kind, status |-> status, name |-> name, file_path |-> file_path,
     method |-> method]

PlogIdle ==
    plog = [pc |-> "idle", parser |-> "none", line |-> <<>>,
            out |-> Out("none", "None", <<>>, <<>>, "None")]

\* no whole log parsed yet
StitchIdle == stitch = [pc |-> "idle", log |-> <<>>, blocks |-> {}, out |-> <<>>]

\* no Django log parsed yet
DjIdle == dj = [pc |-> "idle", outcome |-> <<>>, log |-> <<>>, out |-> <<>>]

\* an in-sandbox run_evaluation call: its position, its arguments, whether the
\* log directory was there, the local variable status ("unbound" until it is
\* assigned), what the try block is about to do when the finally clause
\* began, what became of the archival, and what the caller got
Arch(pc, run_id, instance_id, log_dir_exists) ==
    [pc |-> pc, run_id |-> run_id, instance_id |-> instance_id,
     log_dir_exists |-> log_dir_exists, status |-> "unbound", pending |-> "none",
     archive |-> "none", out |-> "none"]

ArchIdle == arch = Arch("idle", 0, "none", FALSE)

\* a run_evaluation call step by step: the patch it evaluates, the steps taken
\* so far, the diff before the tests (None when taking it raised), the status of
\* the patch and of the test execution as the client last saw it, what the
\* status of the patch execution was when the tests were submitted, the
\* execution whose response the variable `response` holds, and the execution
\* whose output was graded
Steps(impl, patch, pc) ==
    [impl |-> impl, patch |-> patch, pc |-> pc, trace |-> <<>>,
     git_diff_output_before |-> "none", resolved |-> FALSE, patch_exec |-> "none",
     tests_exec |-> "none", patch_at_submit |-> "none", response |-> "none",
     graded |-> "none", out |-> "none"]

StepsIdle == steps = Steps("none", "none", "idle")

\* no call of the protocol client in progress
SubIdle == sub = [call |-> "none", received |-> 0]

\* a handler of the API: its route, its position, what its readiness wait
\* returned, whether the client runs in the cluster, the hostname the client
\* has, the execution and file calls it sent to the sandbox, and its answer
Hdl(route, pc, in_cluster) ==
    [route |-> route, pc |-> pc, in_cluster |-> in_cluster, ready |-> "none",
     hostname |-> FALSE, calls |-> 0, out |-> "none"]

HdlIdle == hdl = Hdl("none", "idle", FALSE)

\* a patch, by what the two tools make of it: whether git apply and
\* patch --fuzz=5 apply it to the clean tree, and what each does with it on a
\* tree that already holds it
Patch(git_ok, fuzzy_ok, git_again, patch_again) ==
    [git_ok |-> git_ok, fuzzy_ok |-> fuzzy_ok, git_again |-> git_again,
     patch_again |-> patch_again]

\* a run of the patch-apply commands: the implementation, its position, the
\* patch, how many times the working tree holds the patch, the marker emitted
\* and the exit code of the last command
Pa(impl, pc, patch) ==
    [impl |-> impl, pc |-> pc, patch |-> patch, applied |-> 0, marker |-> "none",
     exit_code |-> 0]

PaIdle == pa = Pa("none", "idle", Patch(FALSE, FALSE, "rejected", "rejected"))

\* a with-statement: the context manager, its position, whether its sandbox
\* exists, whether self.testbed_id is set, and whether it is left by an
\* exception
Ctx(impl, pc, sandbox, testbed_id) ==
    [impl |-> impl, pc |-> pc, sandbox |-> sandbox, testbed_id |-> testbed_id,
     raised |-> FALSE]

CtxIdle == ctx = Ctx("none", "idle", "none", FALSE)

\* a write_file call: its position, the path and the bytes given, the bytes
\* the file holds after the write, whether the command ran to its end, whether
\* the file was read back, and whether the call raised
Wr(pc, file_path, content, stored, chain) ==
    [pc |-> pc, file_path |-> file_path, content |-> content, stored |-> stored,
     chain |-> chain, read_back |-> FALSE, raised |-> FALSE]

WrIdle == wr = Wr("idle", "none", <<>>, <<>>, "none")

\* the client's REQ socket (its generation and whether it awaits a reply), the
\* send_request call in progress, the requests sent so far, those that timed
\* out, the requests the server has not handled yet and the replies it has
\* sent, each with the socket it belongs to, and the last reply returned with
\* the request it was returned for
ZqIdle ==
    zq = [socket |-> 0, awaiting |-> FALSE, pc |-> "idle", request |-> 0, sent |-> 0,
          timed_out |-> {}, requests |-> {}, replies |-> {},
          returned |-> [request |-> 0, reply |-> 0, type |-> "none"], out |-> "none"]

----------------------------------------------------------------------------
(* Spec: the orchestrator, one call at a time, and the cluster control plane. *)

ConcIdle ==
    /\ cpc = [k \in {1, 2} |-> "idle"]
    /\ clocal = [k \in {1, 2} |->
            [inst |-> NoInstance, user |-> Nobody, listed |-> {}, id |-> NoId, out |-> "none"]]

ClusterEmpty ==
    /\ jobs = [id \in TestbedIds |-> NoJob]
    /\ services = [id \in TestbedIds |-> "None"]
    /\ pods = [id \in TestbedIds |-> "None"]
    /\ health = [id \in TestbedIds |-> FALSE]
    /\ sbxWriter = [id \in TestbedIds |-> Nobody]
    /\ ret = [op |-> "none", caller |-> Nobody, target |-> NoId, out |-> "none", id |-> NoId]

Init ==
    /\ ClusterEmpty /\ ConcIdle /\ ExecIdle /\ WaitIdle /\ PollIdle /\ RunIdle
    /\ GradeIdle /\ FileIdle /\ ReqIdle /\ BulkIdle
    /\ TreeIdle /\ IgnIdle /\ BlkIdle /\ PlogIdle /\ StitchIdle /\ DjIdle /\ ArchIdle /\ StepsIdle /\ SubIdle /\ HdlIdle /\ PaIdle /\ CtxIdle /\ WrIdle /\ ZqIdle

\* the call leaves the cluster r.c and its caller the outcome
Commit(op, caller, target, r) ==
    /\ jobs' = r.c.jobs
    /\ services' = r.c.services
    /\ pods' = r.c.pods
    /\ health' = r.c.health
    /\ sbxWriter' = r.c.sbxWriter
    /\ ret' = Outcome(op, caller, target, r)
    /\ UNCHANGED <<concVars, sideVars>>

ServiceStates == {"Pending", "Running"}

GetOrCreateTestbed(instance_id, user_id) ==
    \E suffix \in Suffixes, ip \in ServiceStates :
        Commit("get_or_create_testbed", user_id, <<instance_id, 0>>,
               get_or_create_testbed(Cluster, instance_id, user_id, suffix, ip))

CreateTestbed(instance_id, user_id) ==
    \E suffix \in Suffixes, ip \in ServiceStates :
        Commit("create_testbed", user_id, <<instance_id, 0>>,
               create_testbed(Cluster, instance_id, user_id, suffix, ip))

GetTestbed(testbed_id, user_id) ==
    Commit("get_testbed", user_id, testbed_id, get_testbed(Cluster, testbed_id, user_id))

DeleteTestbed(testbed_id, user_id) ==
    Commit("delete_testbed", user_id, testbed_id,
           delete_testbed(Cluster, testbed_id, user_id))

CreateClient(testbed_id, instance_id, user_id) ==
    \E suffix \in Suffixes, ip \in ServiceStates :
        Commit("create_client", user_id, testbed_id,
               create_client(Cluster, testbed_id, instance_id, user_id, suffix, ip))

\* api/main.py:225-237
ApiGetTestbedStatus(testbed_id, user_id) ==
    Commit("status", user_id, testbed_id, get_testbed_status(Cluster, testbed_id, user_id))

\* api/main.py:239-249
ApiExecuteCommand(testbed_id, user_id) ==
    Commit("exec", user_id, testbed_id, proxy(Cluster, testbed_id, user_id, TRUE))

\* api/main.py:251-260
ApiGetCommandStatus(testbed_id, user_id) ==
    Commit("exec_status", user_id, testbed_id, proxy(Cluster, testbed_id, user_id, FALSE))

\* api/main.py:262-275
ApiGetFile(testbed_id, user_id) ==
    Commit("get_file", user_id, testbed_id, proxy(Cluster, testbed_id, user_id, FALSE))

\* api/main.py:277-290
ApiSaveFile(testbed_id, user_id) ==
    Commit("save_file", user_id, testbed_id, proxy(Cluster, testbed_id, user_id, TRUE))

\* The cluster control plane: the job controller lists a pod for the job, the
\* pod starts, the service gets its address, the sandbox server comes up or
\* stops answering.
PodScheduled(id) ==
    /\ jobs[id] # NoJob /\ pods[id] = "None"
    /\ pods' = [pods EXCEPT ![id] = "Pending"]
    /\ UNCHANGED <<jobs, services, health, sbxWriter, ret, cpc, clocal, sideVars>>

PodStarted(id) ==
    /\ pods[id] = "Pending"
    /\ pods' = [pods EXCEPT ![id] = "Running"]
    /\ UNCHANGED <<jobs, services, health, sbxWriter, ret, cpc, clocal, sideVars>>

ServiceAssigned(id) ==
    /\ services[id] = "Pending"
    /\ services' = [services EXCEPT ![id] = "Running"]
    /\ UNCHANGED <<jobs, pods, health, sbxWriter, ret, cpc, clocal, sideVars>>

HealthUp(id) ==
    /\ pods[id] = "Running" /\ ~health[id]
    /\ health' = [health EXCEPT ![id] = TRUE]
    /\ UNCHANGED <<jobs, services, pods, sbxWriter, ret, cpc, clocal, sideVars>>

HealthDown(id) ==
    /\ health[id]
    /\ health' = [health EXCEPT ![id] = FALSE]
    /\ UNCHANGED <<jobs, services, pods, sbxWriter, ret, cpc, clocal, sideVars>>

ControlPlane ==
    \E id \in TestbedIds :
        \/ PodScheduled(id)
        \/ PodStarted(id)
        \/ ServiceAssigned(id)
        \/ HealthUp(id)
        \/ HealthDown(id)

\* api/main.py:149-157
ApiGetTestbed(testbed_id, user_id) ==
    LET r == get_testbed(Cluster, testbed_id, user_id) IN
    Commit("GET testbed", user_id, testbed_id,
           Result(r.c, IF r.out = "None" THEN "404" ELSE "200", NoId))

ManagerCall ==
    \/ \E i \in Instances, u \in Users : GetOrCreateTestbed(i, u)
    \/ \E i \in Instances, u \in Users : CreateTestbed(i, u)
    \/ \E id \in TestbedIds, u \in Users : GetTestbed(id, u)
    \/ \E id \in TestbedIds, u \in Users : ApiGetTestbed(id, u)
    \/ \E id \in TestbedIds, u \in Users : DeleteTestbed(id, u)
    \/ \E id \in TestbedIds, i \in Instances \cup {NoInstance}, u \in Users :
            CreateClient(id, i, u)

ProxyCall ==
    \/ \E id \in TestbedIds, u \in Users : ApiGetTestbedStatus(id, u)
    \/ \E id \in TestbedIds, u \in Users : ApiExecuteCommand(id, u)
    \/ \E id \in TestbedIds, u \in Users : ApiGetCommandStatus(id, u)
    \/ \E id \in TestbedIds, u \in Users : ApiGetFile(id, u)
    \/ \E id \in TestbedIds, u \in Users : ApiSaveFile(id, u)

Next == ManagerCall \/ ControlPlane

Spec == Init /\ [][Next]_vars

\* SpecApi: the orchestrator with the sandbox calls it proxies
NextApi == ManagerCall \/ ProxyCall \/ ControlPlane

SpecApi == Init /\ [][NextApi]_vars

----------------------------------------------------------------------------
(* SpecConc: two callers of the control plane (api/main.py:319 serves        *)
(* threaded) inside get_or_create_testbed or create_testbed at once; every  *)
(* step is one call of the cluster API.                                     *)

Callers == {1, 2}

ConcLocal(instance_id, user_id, listed, id, out) ==
    [inst |-> instance_id, user |-> user_id, listed |-> listed, id |-> id, out |-> out]

\* manager.py:121: list_namespaced_job, the snapshot the loop then walks
GocList(k) ==
    /\ cpc[k] = "idle"
    /\ \E i \in Instances, u \in Users :
         clocal' = [clocal EXCEPT ![k] =
                       ConcLocal(i, u, MatchingJobs(Cluster, i, u), NoId, "none")]
    /\ cpc' = [cpc EXCEPT ![k] = "scan"]
    /\ UNCHANGED <<orchVars, sideVars>>

\* manager.py:122-135: the loop over the snapshot, reading each job's status
GocScan(k) ==
    /\ cpc[k] = "scan"
    /\ LET usable == {id \in clocal[k].listed : read_testbed_status(Cluster, id) # "Unknown"}
       IN IF usable # {}
          THEN /\ clocal' = [clocal EXCEPT ![k].out = "ok",
                   ![k].id = CHOOSE id \in usable : \A o \in usable : id[2] <= o[2]]
               /\ cpc' = [cpc EXCEPT ![k] = "done"]
          ELSE /\ cpc' = [cpc EXCEPT ![k] = "create_job"]
               /\ UNCHANGED clocal
    /\ UNCHANGED <<orchVars, sideVars>>

\* manager.py:137-150: create_testbed called directly
CreateStart(k) ==
    /\ cpc[k] = "idle"
    /\ \E i \in Instances, u \in Users :
         clocal' = [clocal EXCEPT ![k] = ConcLocal(i, u, {}, NoId, "none")]
    /\ cpc' = [cpc EXCEPT ![k] = "create_job"]
    /\ UNCHANGED <<orchVars, sideVars>>

\* manager.py:152-159, 184-187: _generate_test_id and create_namespaced_job
CreateJob(k) ==
    /\ cpc[k] = "create_job"
    /\ \E suffix \in Suffixes :
         LET testbed_id == generate_test_id(clocal[k].inst, suffix) IN
         IF jobs[testbed_id] # NoJob
         THEN /\ clocal' = [clocal EXCEPT ![k].out = "ValueError"]
              /\ cpc' = [cpc EXCEPT ![k] = "done"]
              /\ UNCHANGED jobs
         ELSE /\ jobs' = [jobs EXCEPT ![testbed_id] = clocal[k].user]
              /\ clocal' = [clocal EXCEPT ![k].id = testbed_id]
              /\ cpc' = [cpc EXCEPT ![k] = "create_service"]
    /\ UNCHANGED <<services, pods, health, sbxWriter, ret, sideVars>>

\* manager.py:161-164, 184-187: create_namespaced_service
CreateService(k) ==
    /\ cpc[k] = "create_service"
    /\ IF services[clocal[k].id] # "None"
       THEN /\ clocal' = [clocal EXCEPT ![k].out = "ValueError"]
            /\ cpc' = [cpc EXCEPT ![k] = "done"]
            /\ UNCHANGED services
       ELSE /\ \E ip \in ServiceStates :
                 services' = [services EXCEPT ![clocal[k].id] = ip]
            /\ cpc' = [cpc EXCEPT ![k] = "get_job"]
            /\ UNCHANGED clocal
    /\ UNCHANGED <<jobs, pods, health, sbxWriter, ret, sideVars>>

\* manager.py:166-183: the job is read back and the summary returned
GetJobAndReturn(k) ==
    /\ cpc[k] = "get_job"
    /\ clocal' = [clocal EXCEPT ![k].out = "ok"]
    /\ cpc' = [cpc EXCEPT ![k] = "done"]
    /\ UNCHANGED <<orchVars, sideVars>>

\* the caller has its answer and may call again
CallReturns(k) ==
    /\ cpc[k] = "done"
    /\ cpc' = [cpc EXCEPT ![k] = "idle"]
    /\ clocal' = [clocal EXCEPT ![k] = ConcLocal(NoInstance, Nobody, {}, NoId, "none")]
    /\ UNCHANGED <<orchVars, sideVars>>

ConcNext ==
    \/ \E k \in Callers : GocList(k)
    \/ \E k \in Callers : GocScan(k)
    \/ \E k \in Callers : CreateStart(k)
    \/ \E k \in Callers : CreateJob(k)
    \/ \E k \in Callers : CreateService(k)
    \/ \E k \in Callers : GetJobAndReturn(k)
    \/ \E k \in Callers : CallReturns(k)
    \/ ControlPlane

SpecConc == Init /\ [][ConcNext]_vars

----------------------------------------------------------------------------
(* Claims about the orchestrator.                                           *)

\* C2: two consecutive calls of get_or_create_testbed(task, owner), with no other
\* manager call in between and the cluster in any state it can move to, return
\* the same testbed id.
C2_GetOrCreateIdempotent ==
    [][\A i \in Instances, u \in Users :
          ( /\ ret.op = "get_or_create_testbed"
            /\ ret.caller = u
            /\ ret.target = <<i, 0>>
            /\ ret.out = "ok"
            /\ GetOrCreateTestbed(i, u) )
          => (ret'.out = "ok" /\ ret'.id = ret.id)]_vars

\* C3: in every state reachable by get_or_create_testbed, create_testbed,
\* create_client and delete_testbed calls, at most one job exists per
\* (task id, owner id) pair.
C3_OneSandboxPerPair ==
    \A i \in Instances, u \in Users : Cardinality(MatchingJobs(Cluster, i, u)) <= 1

\* the calls in flight that have created a job for the pair (i, u)
Creators(i, u) ==
    {k \in Callers : /\ clocal[k].inst = i /\ clocal[k].user = u
                     /\ cpc[k] \in {"create_service", "get_job", "done"}
                     /\ clocal[k].id # NoId
                     /\ clocal[k].listed = {}
                     /\ jobs[clocal[k].id] = u}

\* C4: of the callers running find-or-create (or create) for the same pair at
\* once, at most one creates a sandbox, and the pair never has two sandboxes.
C4_NoDoubleCreate ==
    \A i \in Instances, u \in Users :
        /\ Cardinality(Creators(i, u)) <= 1
        /\ (Creators(i, u) # {} => Cardinality(MatchingJobs(Cluster, i, u)) <= 1)

\* C5: get_testbed(id, B), and GET /testbeds/{id} with B's key, for a sandbox B
\* does not own answers None (404), the answer for an id that does not exist,
\* and raises nothing.
C5_ForeignGetIsNotFound ==
    /\ (ret.op = "get_testbed" /\ jobs[ret.target] # ret.caller) => ret.out = "None"
    /\ (ret.op = "GET testbed" /\ jobs[ret.target] # ret.caller) => ret.out = "404"

\* C5 witness: B asked for A's sandbox while its pod was listed, where A is
\* given the status.
C5_Witness ==
    /\ ret.op = "get_testbed"
    /\ jobs[ret.target] \notin {NoJob, ret.caller}
    /\ pods[ret.target] = "Running"

SandboxOps ==
    {"status", "exec", "exec_status", "get_file", "save_file", "delete_testbed",
     "create_client"}

\* what each operation answers for a testbed id that does not exist
\* (create_client: a client of a new testbed, or ValueError when no instance id
\* is given or the name drawn is taken)
NotFoundAnswers(op) ==
    CASE op = "status" -> {"Unknown"}
      [] op \in {"exec", "exec_status", "get_file", "save_file"} -> {"500"}
      [] op = "delete_testbed" -> {"RuntimeError"}
      [] op = "create_client" -> {"client", "ValueError"}

\* C6: for every operation taking a sandbox id and a caller, a caller who is not
\* the owner gets the answer given for an id that does not exist, and the
\* sandbox is not changed by the call.
C6_ForeignCallIsNotFound ==
    (ret.op \in SandboxOps /\ jobs[ret.target] \notin {NoJob, ret.caller})
        => /\ ret.out \in NotFoundAnswers(ret.op)
           /\ sbxWriter[ret.target] # ret.caller

----------------------------------------------------------------------------
(* SpecExec: the in-sandbox server.  testbed/server.py:120 runs the Flask    *)
(* server, which serves every request on a thread of its own; each POST     *)
(* /exec handler calls KubernetesContainer.execute on the one container     *)
(* object.                                                                  *)

\* the positions at which the Execution of a request is neither completed nor
\* failed
NonTerminalPcs == {"write_file", "chmod", "stream"}

InFlight == {r \in Requests : execs[r].pc \in NonTerminalPcs}

\* testbed/server.py:53-58 and kubernetes.py:190-194: the request is parsed and
\* execute is entered.  Neither calls is_executing (kubernetes.py:284-292), whose
\* started_at is False from line 54 on.
ExecuteCommand(r) ==
    /\ execs[r].pc = "idle"
    /\ execs' = [execs EXCEPT ![r] = ExecThread("write_file", 0, InFlight # {}, "none")]
    /\ UNCHANGED <<sbxLog, orchVars, concVars, pureVars, wait, poll, run>>

\* kubernetes.py:196-198: write_file of the script; an exception of it leaves
\* execute and the handler answers 500 (testbed/server.py:62-65)
WriteScript(r) ==
    /\ execs[r].pc = "write_file"
    /\ \/ execs' = [execs EXCEPT ![r].pc = "chmod"]
       \/ execs' = [execs EXCEPT ![r].pc = "responded", ![r].status = "500"]
    /\ UNCHANGED <<sbxLog, orchVars, concVars, pureVars, wait, poll, run>>

\* kubernetes.py:200-201: _exec of chmod
Chmod(r) ==
    /\ execs[r].pc = "chmod"
    /\ \/ execs' = [execs EXCEPT ![r].pc = "stream"]
       \/ execs' = [execs EXCEPT ![r].pc = "responded", ![r].status = "500"]
    /\ UNCHANGED <<sbxLog, orchVars, concVars, pureVars, wait, poll, run>>

\* kubernetes.py:203-225: bash runs the next command of the script in the sandbox
StreamCommand(r) ==
    /\ execs[r].pc = "stream"
    /\ execs[r].ran < NumCommands
    /\ execs' = [execs EXCEPT ![r].ran = @ + 1]
    /\ sbxLog' = Append(sbxLog, r)
    /\ UNCHANGED <<orchVars, concVars, pureVars, wait, poll, run>>

\* kubernetes.py:220-225: the stream closes after the last command
StreamEnds(r) ==
    /\ execs[r].pc = "stream"
    /\ execs[r].ran = NumCommands
    /\ execs' = [execs EXCEPT ![r].pc = "rm", ![r].status = "completed"]
    /\ UNCHANGED <<sbxLog, orchVars, concVars, pureVars, wait, poll, run>>

\* kubernetes.py:226-229: the stream raises (the request timeout included)
StreamFails(r) ==
    /\ execs[r].pc = "stream"
    /\ execs' = [execs EXCEPT ![r].pc = "rm", ![r].status = "failed"]
    /\ UNCHANGED <<sbxLog, orchVars, concVars, pureVars, wait, poll, run>>

\* kubernetes.py:231-238 and testbed/server.py:61-65: the script is removed and
\* the response returned; an exception of rm gives a 500
Cleanup(r) ==
    /\ execs[r].pc = "rm"
    /\ \/ execs' = [execs EXCEPT ![r].pc = "responded"]
       \/ execs' = [execs EXCEPT ![r].pc = "responded", ![r].status = "500"]
    /\ UNCHANGED <<sbxLog, orchVars, concVars, pureVars, wait, poll, run>>

ExecNext ==
    \/ \E r \in Requests : ExecuteCommand(r)
    \/ \E r \in Requests : WriteScript(r)
    \/ \E r \in Requests : Chmod(r)
    \/ \E r \in Requests : StreamCommand(r)
    \/ \E r \in Requests : StreamEnds(r)
    \/ \E r \in Requests : StreamFails(r)
    \/ \E r \in Requests : Cleanup(r)

SpecExec == Init /\ [][ExecNext]_vars

\* the commands of one request are separated by a command of another
Interleaved(log) ==
    \E i, j, k \in 1..Len(log) : i < j /\ j < k /\ log[i] = log[k] /\ log[i] # log[j]

\* C1: a request that arrives while the Execution of another is non-terminal is
\* rejected: it runs no command in the sandbox and is not answered with the
\* status of an Execution; and the commands of two Executions are never
\* interleaved in the sandbox.
C1_SingleFlight ==
    /\ \A r \in Requests :
         execs[r].busy => /\ execs[r].ran = 0
                          /\ execs[r].status \notin {"completed", "failed"}
    /\ ~Interleaved(sbxLog)

----------------------------------------------------------------------------
(* SpecReady: the three readiness waits.  What the cluster and the health   *)
(* endpoint answer in an iteration is an input of the iteration.            *)

\* the timeout the wait is called with, in units of the sleep interval
WaitTimeout == 12
\* utils.py:43: `if not_found_count > 10`
NotFoundLimit == 10

WaitImpls == {"client.wait_until_ready", "utils.wait_for_testbed_ready",
              "sdk.wait_until_ready"}

\* what get_testbed shows: no testbed, one whose pod, address or containers are
\* not ready, one for which all four conditions hold
Testbeds == {"NotFound", "NotReady", "Ready"}

\* what GET /health gives: 200 with status OK, 200 with another payload, a 503,
\* a 500, no connection
Probes == {"OK", "NotOK", "503", "500", "ConnectionError"}

\* the time one iteration takes: the sleep interval, plus the calls it makes
Durations == {1, 2}

WaitStart(impl) ==
    /\ wait.pc = "idle"
    /\ wait' = Wait(impl, "loop", 0, 0, FALSE, FALSE, "none")
    /\ UNCHANGED <<orchVars, concVars, pureVars, execVars, poll, run>>

WaitReturns(out, probed, deadline) ==
    wait' = [wait EXCEPT !.pc = "done", !.out = out, !.probed = probed,
                         !.deadline = deadline]

\* client/client.py:79-174, one iteration of the loop or the exit at line 166
ClientWaitStep ==
    /\ wait.impl = "client.wait_until_ready" /\ wait.pc = "loop"
    /\ IF wait.elapsed >= WaitTimeout
       THEN WaitReturns("None", wait.probed, TRUE)
       ELSE \E testbed \in Testbeds, probe \in Probes, d \in Durations :
              IF testbed = "Ready" /\ probe = "OK"
              THEN WaitReturns("testbed", TRUE, FALSE)
              ELSE wait' = [wait EXCEPT !.elapsed = @ + d]
    /\ UNCHANGED <<orchVars, concVars, pureVars, execVars, poll, run>>

\* utils.py:8-97, one iteration of the loop or the exit at line 89
UtilsWaitStep ==
    /\ wait.impl = "utils.wait_for_testbed_ready" /\ wait.pc = "loop"
    /\ IF wait.elapsed >= WaitTimeout
       THEN WaitReturns("None", wait.probed, TRUE)
       ELSE \E testbed \in Testbeds, d \in Durations :
              CASE testbed = "NotFound" ->
                     IF wait.not_found_count + 1 > NotFoundLimit
                     THEN wait' = [wait EXCEPT !.pc = "done", !.out = "TimeoutError",
                                               !.not_found_count = @ + 1]
                     ELSE wait' = [wait EXCEPT !.not_found_count = @ + 1,
                                               !.elapsed = @ + d]
                [] testbed = "Ready" -> WaitReturns("testbed", wait.probed, FALSE)
                [] OTHER -> wait' = [wait EXCEPT !.elapsed = @ + d]
    /\ UNCHANGED <<orchVars, concVars, pureVars, execVars, poll, run>>

\* testbeds/sdk/client.py:82-93
check_health(probe) ==
    CASE probe = "OK" -> "True"
      [] probe \in {"NotOK", "503"} -> "False"
      [] probe = "500" -> "Exception"
      [] OTHER -> "RequestException"

\* testbeds/sdk/client.py:167-189, one iteration of the loop or the raise of line
\* 189.  A RequestException of requests.get carries no response, so that
\* `e.response.status_code` of line 180 raises AttributeError out of the handler.
SdkWaitStep ==
    /\ wait.impl = "sdk.wait_until_ready" /\ wait.pc = "loop"
    /\ IF wait.elapsed >= WaitTimeout
       THEN WaitReturns("TimeoutError", wait.probed, TRUE)
       ELSE \E probe \in Probes, d \in Durations :
              CASE check_health(probe) = "True" -> WaitReturns("True", TRUE, FALSE)
                [] check_health(probe) = "RequestException" ->
                     WaitReturns("AttributeError", wait.probed, FALSE)
                [] OTHER -> wait' = [wait EXCEPT !.elapsed = @ + d]
    /\ UNCHANGED <<orchVars, concVars, pureVars, execVars, poll, run>>

\* the caller has its answer; the wait may be called again
WaitDone ==
    /\ wait.pc = "done"
    /\ wait' = Wait("none", "idle", 0, 0, FALSE, FALSE, "none")
    /\ UNCHANGED <<orchVars, concVars, pureVars, execVars, poll, run>>

ReadyNext ==
    \/ \E impl \in WaitImpls : WaitStart(impl)
    \/ ClientWaitStep
    \/ UtilsWaitStep
    \/ SdkWaitStep
    \/ WaitDone

SpecReady == Init /\ [][ReadyNext]_vars

\* what a wait gives its caller on success
WaitSuccess == {"testbed", "True"}

\* C7: a readiness wait reports success only after a health probe of the wait
\* has answered status OK.
C7_SuccessOnlyAfterHealthOK ==
    wait.out \in WaitSuccess => wait.probed

\* C8: a readiness wait that ends because its deadline passed raises a timeout
\* error; it does not return None.
C8_TimeoutIsAnError ==
    (wait.pc = "done" /\ wait.deadline) => wait.out = "TimeoutError"

----------------------------------------------------------------------------
(* SpecPoll: the loops that poll an Execution until it is no longer running. *)

\* the time after which the Execution counts as timed out, in clock ticks
\* (testbeds/sdk/client.py:242 compares with 1200 seconds)
PollTimeout == 3
\* the clock stops counting here
MaxClock == 5

PollImpls == {"client.execute", "client.run_evaluation", "sdk.run_tests",
              "sdk.run_evaluation"}

\* the loops with a deadline: testbeds/sdk/client.py:241-243.  client/client.py:
\* 324-326 and 462-464 and testbeds/sdk/client.py:314-316 have none.
HasDeadline(impl) == impl = "sdk.run_tests"

Terminal == {"completed", "failed"}

\* client/client.py:322, 460 (execute), testbeds/sdk/client.py:237-238, 311-313:
\* the Execution is submitted and its status read a first time
PollSubmit(impl) ==
    /\ poll.pc = "idle"
    /\ \E s \in {"running"} \cup Terminal :
         poll' = Poll(impl, "polling", s, 0, FALSE, s, "none")
    /\ UNCHANGED <<orchVars, concVars, pureVars, execVars, wait, run>>

\* the sandbox: the Execution completes or fails
ExecutionEnds ==
    /\ poll.pc = "polling" /\ poll.exec = "running"
    /\ \E s \in Terminal : poll' = [poll EXCEPT !.exec = s]
    /\ UNCHANGED <<orchVars, concVars, pureVars, execVars, wait, run>>

\* time passes while the loop sleeps and waits for a response
Tick ==
    /\ poll.pc = "polling" /\ poll.clock < MaxClock
    /\ poll' = [poll EXCEPT !.clock = @ + 1]
    /\ UNCHANGED <<orchVars, concVars, pureVars, execVars, wait, run>>

\* one evaluation of `while response.status == "running"` and of the loop body:
\* client/client.py:324-326, 462-464, testbeds/sdk/client.py:241-245, 314-316.
\* get_execution_status re-raises a RequestException.
PollStep ==
    /\ poll.pc = "polling"
    /\ IF poll.status # "running"
       THEN poll' = [poll EXCEPT !.pc = "returned", !.out = poll.status]
       ELSE IF HasDeadline(poll.impl) /\ poll.clock > PollTimeout
            THEN poll' = [poll EXCEPT !.pc = "raised", !.out = "TimeoutError"]
            ELSE \/ poll' = [poll EXCEPT !.status = poll.exec,
                                         !.late = @ \/ poll.clock > PollTimeout]
                 \/ poll' = [poll EXCEPT !.pc = "raised", !.out = "RequestException",
                                         !.late = @ \/ poll.clock > PollTimeout]
    /\ UNCHANGED <<orchVars, concVars, pureVars, execVars, wait, run>>

\* the caller has its answer; a loop may be entered again
PollDone ==
    /\ poll.pc \in {"returned", "raised"}
    /\ poll' = Poll("none", "idle", "none", 0, FALSE, "none", "none")
    /\ UNCHANGED <<orchVars, concVars, pureVars, execVars, wait, run>>

PollNext ==
    \/ \E impl \in PollImpls : PollSubmit(impl)
    \/ ExecutionEnds
    \/ Tick
    \/ PollStep
    \/ PollDone

SpecPoll == Init /\ [][PollNext]_vars

\* C9: the loop returns only a terminal status, and it sends no status request
\* once the timeout has passed with the Execution still running (it raises a
\* timeout error instead).
C9_PollStopsAtTimeout ==
    /\ poll.pc = "returned" => poll.out \in Terminal
    /\ ~poll.late

----------------------------------------------------------------------------
(* SpecEval: the three run_evaluation pipelines.                            *)

RunImpls == {"client.run_evaluation", "sdk.run_evaluation", "run_instance"}

\* schema.py:78-83: run_id and instance_id are required fields, patch_applied and
\* resolved default to False; a construction without the required fields raises
\* pydantic's ValidationError
EvaluationResult(r, has_ids, patch_applied, resolved) ==
    IF has_ids
    THEN [r EXCEPT !.pc = "done", !.out = "result", !.patch_applied = patch_applied,
                   !.resolved = resolved]
    ELSE [r EXCEPT !.pc = "done", !.out = "ValidationError"]

Raise(r, error) == [r EXCEPT !.pc = "done", !.out = error]

\* client/client.py:427-441, testbeds/sdk/client.py:281-299, run_evaluation.py:54-80
RunStart(impl) ==
    /\ run.pc = "idle"
    /\ \E patch \in {"gold", "given"} : run' = Run(impl, patch, "apply_patch")
    /\ UNCHANGED <<orchVars, concVars, pureVars, execVars, wait, poll>>

\* client/client.py:443-452: the patch commands of test_spec.py:122-141 echo
\* 'APPLY_PATCH_FAIL:' when both attempts fail; the result of line 449 is built
\* from status and output alone
ClientApplyPatch ==
    /\ run.impl = "client.run_evaluation" /\ run.pc = "apply_patch"
    /\ \E failed \in BOOLEAN :
         IF failed
         THEN run' = EvaluationResult([run EXCEPT !.marker = TRUE], FALSE, FALSE, FALSE)
         ELSE run' = [run EXCEPT !.pc = "diff_before"]
    /\ UNCHANGED <<orchVars, concVars, pureVars, execVars, wait, poll>>

\* testbeds/sdk/client.py:301 and 211-227: apply_patch looks for the value of the
\* constant APPLY_PATCH_FAIL in the output; `found` is whether the marker emitted
\* contains that value
SdkApplyPatch ==
    /\ run.impl = "sdk.run_evaluation" /\ run.pc = "apply_patch"
    /\ \E failed \in BOOLEAN, found \in BOOLEAN :
         IF failed
         THEN IF found
              THEN run' = Raise([run EXCEPT !.marker = TRUE], "RuntimeError")
              ELSE run' = [run EXCEPT !.marker = TRUE, !.pc = "diff_before"]
         ELSE run' = [run EXCEPT !.pc = "diff_before"]
    /\ UNCHANGED <<orchVars, concVars, pureVars, execVars, wait, poll>>

\* run_evaluation.py:82-102: git apply, then patch --fuzz; the marker is logged
\* and EvaluationError raised when both exit non-zero
InstanceApplyPatch ==
    /\ run.impl = "run_instance" /\ run.pc = "apply_patch"
    /\ \E git_apply_ok \in BOOLEAN, patch_ok \in BOOLEAN :
         IF ~git_apply_ok /\ ~patch_ok
         THEN run' = Raise([run EXCEPT !.marker = TRUE], "EvaluationError")
         ELSE run' = [run EXCEPT !.pc = "diff_before"]
    /\ UNCHANGED <<orchVars, concVars, pureVars, execVars, wait, poll>>

\* client/client.py:454-458, testbeds/sdk/client.py:303-309, run_evaluation.py:
\* 105-111: the diff, or None when taking it raised
DiffBefore ==
    /\ run.pc = "diff_before"
    /\ \E d \in {"None", "diff"} : run' = [run EXCEPT !.diff_before = d, !.pc = "run_tests"]
    /\ UNCHANGED <<orchVars, concVars, pureVars, execVars, wait, poll>>

\* client/client.py:460, testbeds/sdk/client.py:311-313, run_evaluation.py:113-131:
\* the test execution is issued; run_eval of run_instance waits for its end and
\* its TimeoutError is re-raised
RunTests ==
    /\ run.pc = "run_tests"
    /\ IF run.impl = "run_instance"
       THEN \/ run' = [run EXCEPT !.tests = TRUE, !.status = "completed",
                                  !.pc = "diff_after"]
            \/ run' = Raise([run EXCEPT !.tests = TRUE], "TimeoutError")
       ELSE \E s \in {"running"} \cup Terminal :
              run' = [run EXCEPT !.tests = TRUE, !.status = s, !.pc = "polling"]
    /\ UNCHANGED <<orchVars, concVars, pureVars, execVars, wait, poll>>

\* client/client.py:462-464, testbeds/sdk/client.py:314-316
TestsPoll ==
    /\ run.pc = "polling"
    /\ IF run.status = "running"
       THEN \E s \in {"running"} \cup Terminal : run' = [run EXCEPT !.status = s]
       ELSE run' = [run EXCEPT !.pc = IF run.impl = "sdk.run_evaluation" /\ run.marker
                                      THEN "check_literal" ELSE "diff_after"]
    /\ UNCHANGED <<orchVars, concVars, pureVars, execVars, wait, poll>>

\* testbeds/sdk/client.py:318-323: the literal marker is looked for in the output
\* of the tests; when it is there, line 322 calls .get of the response model
CheckLiteral ==
    /\ run.pc = "check_literal"
    /\ \E literal \in BOOLEAN :
         IF literal
         THEN run' = Raise(run, "AttributeError")
         ELSE run' = [run EXCEPT !.pc = "diff_after"]
    /\ UNCHANGED <<orchVars, concVars, pureVars, execVars, wait, poll>>

\* client/client.py:466-475, testbeds/sdk/client.py:325-334, run_evaluation.py:
\* 133-146: the diff after the tests is compared with the one before; an
\* exception of it is logged
DiffAfter ==
    /\ run.pc = "diff_after"
    /\ run' = [run EXCEPT !.pc = "report"]
    /\ UNCHANGED <<orchVars, concVars, pureVars, execVars, wait, poll>>

\* client/client.py:477-485, testbeds/sdk/client.py:336-344, run_evaluation.py:
\* 148-163: the report of the test output becomes the result
Report ==
    /\ run.pc = "report"
    /\ \E resolved \in BOOLEAN : run' = EvaluationResult(run, TRUE, TRUE, resolved)
    /\ UNCHANGED <<orchVars, concVars, pureVars, execVars, wait, poll>>

\* the caller has its answer; run_evaluation may be called again
RunDone ==
    /\ run.pc = "done"
    /\ run' = Run("none", "none", "idle")
    /\ UNCHANGED <<orchVars, concVars, pureVars, execVars, wait, poll>>

EvalNext ==
    \/ \E impl \in RunImpls : RunStart(impl)
    \/ ClientApplyPatch
    \/ SdkApplyPatch
    \/ InstanceApplyPatch
    \/ DiffBefore
    \/ RunTests
    \/ TestsPoll
    \/ CheckLiteral
    \/ DiffAfter
    \/ Report
    \/ RunDone

SpecEval == Init /\ [][EvalNext]_vars

\* C10: once the patch-apply step has emitted the failure marker, no test
\* execution is issued, and run_evaluation returns a result whose patch_applied
\* is false.
C10_PatchFailureShortCircuit ==
    run.marker => /\ ~run.tests
                  /\ run.pc = "done" => (run.out = "result" /\ ~run.patch_applied)

----------------------------------------------------------------------------
(* SpecGrade: TestSpec.get_pred_report applied to the output of a test run.  *)
(* A log is what grading reads of it: whether the patch-applied marker is    *)
(* there (and no failure marker), and the tests its lines report as passed.  *)

\* number of test names
NumTests == 3
Tests == 1..NumTests

\* the task instances: fail_to_pass and pass_to_pass are disjoint sets of tests
Specs == {s \in [fail_to_pass : SUBSET Tests, pass_to_pass : SUBSET Tests] :
             s.fail_to_pass \cap s.pass_to_pass = {}}

Logs == [marker : BOOLEAN, passed : SUBSET Tests]

\* test_spec.py:273-307: without the marker the parser is not called
get_logs_eval(content) ==
    IF ~content.marker
    THEN [eval_sm |-> {}, found |-> FALSE, parsed |-> FALSE]
    ELSE [eval_sm |-> content.passed, found |-> TRUE, parsed |-> TRUE]

\* schema.py:66-68
TestResult(success, failure) == [success |-> success, failure |-> failure]

\* grading.get_eval_tests_report (spec.md 4.5, steps 2 and 3): the tests of each
\* expected set, split into observed passed and not
get_eval_tests_report(eval_sm, eval_ref) ==
    [FAIL_TO_PASS |-> TestResult(eval_ref.fail_to_pass \cap eval_sm,
                                 eval_ref.fail_to_pass \ eval_sm),
     PASS_TO_PASS |-> TestResult(eval_ref.pass_to_pass \cap eval_sm,
                                 eval_ref.pass_to_pass \ eval_sm)]

\* grading.get_resolution_status (spec.md 4.5, step 4)
get_resolution_status(report) ==
    IF report.FAIL_TO_PASS.failure = {} /\ report.PASS_TO_PASS.failure = {}
    THEN "FULL"
    ELSE IF report.FAIL_TO_PASS.success = {} THEN "NO" ELSE "PARTIAL"

\* schema.py:71-75: the model has the four fields below, each an empty TestResult
\* by default; a keyword that names none of them is ignored
TestsStatusFields == {"FAIL_TO_PASS", "PASS_TO_PASS", "FAIL_TO_FAIL", "PASS_TO_FAIL"}

TestsStatus(kwargs) ==
    [f \in TestsStatusFields |->
        IF f \in DOMAIN kwargs THEN kwargs[f] ELSE TestResult({}, {})]

\* get_pred_report with the two expected sets exchanged in eval_ref
get_pred_report_exchanged(spec, content) ==
    LET logs == get_logs_eval(content) IN
    IF ~logs.found
    THEN [status |-> "NO", parsed |-> logs.parsed,
          result |-> TestsStatus([status |-> "NO"])]
    ELSE LET eval_ref == [fail_to_pass |-> spec.pass_to_pass,
                          pass_to_pass |-> spec.fail_to_pass]
             report == get_eval_tests_report(logs.eval_sm, eval_ref)
             status == get_resolution_status(report)
         IN [status |-> status, parsed |-> logs.parsed,
             result |-> TestsStatus([status |-> status,
                                     fail_to_pass |-> report.FAIL_TO_PASS,
                                     pass_to_pass |-> report.PASS_TO_PASS])]

\* test_spec.py:240-271: status is the verdict computed at line 265 (NO at line
\* 256), result the TestsStatus returned
get_pred_report(spec, content) ==
    LET logs == get_logs_eval(content) IN
    IF ~logs.found
    THEN [status |-> "NO", parsed |-> logs.parsed,
          result |-> TestsStatus([status |-> "NO"])]
    ELSE LET eval_ref == [fail_to_pass |-> spec.fail_to_pass,
                          pass_to_pass |-> spec.pass_to_pass]
             report == get_eval_tests_report(logs.eval_sm, eval_ref)
             status == get_resolution_status(report)
         IN [status |-> status, parsed |-> logs.parsed,
             result |-> TestsStatus([status |-> status,
                                     fail_to_pass |-> report.FAIL_TO_PASS,
                                     pass_to_pass |-> report.PASS_TO_PASS])]

\* a log is graded against a task instance
GetPredReport ==
    /\ \E spec \in Specs, content \in Logs :
         grade' = [pc |-> "done", spec |-> spec, content |-> content,
                   report |-> get_pred_report(spec, content)]
    /\ UNCHANGED <<baseVars, file, req, bulk, laterVars>>

GradeNext == GetPredReport

SpecGrade == Init /\ [][GradeNext]_vars

Graded == grade.pc = "done" /\ grade.content.marker

AllResolved == grade.spec.fail_to_pass \subseteq grade.content.passed
AllMaintained == grade.spec.pass_to_pass \subseteq grade.content.passed
NoneResolved == grade.spec.fail_to_pass \cap grade.content.passed = {}

RanAndNoneResolved(spec) ==
    {content \in Logs : content.marker /\ spec.fail_to_pass \cap content.passed = {}}

\* C12: a log without the marker is graded NONE without its lines being parsed,
\* and the result returned differs from the result of every run whose tests ran
\* and in which no fail_to_pass test passed.
C12_NotFoundIsDistinct ==
    (grade.pc = "done" /\ ~grade.content.marker)
        => /\ grade.report.status = "NO"
           /\ ~grade.report.parsed
           /\ \A content \in RanAndNoneResolved(grade.spec) :
                 get_pred_report(grade.spec, content).result # grade.report.result

----------------------------------------------------------------------------
(* SpecFile: file transfer. A text is a sequence of code points, a payload  *)
(* a sequence of bytes, a base64 text a sequence of sextets with 64 for the *)
(* padding character '='.                                                   *)

SeqsUpTo(S, n) == UNION {[1..k -> S] : k \in 0..n}

\* the texts a caller saves: 'a' (one byte in UTF-8) and U+00E9 (two bytes)
Strs == SeqsUpTo({97, 233}, MaxContentLen)
\* the payloads a caller posts: 'a' and the byte 0xFF, which no UTF-8 text holds
Payloads == SeqsUpTo({97, 255}, MaxContentLen)

\* str.encode(): UTF-8
RECURSIVE str_encode(_)
str_encode(s) ==
    IF s = <<>> THEN <<>>
    ELSE LET cp == Head(s)
             bytes == IF cp < 128 THEN <<cp>>
                      ELSE IF cp < 2048 THEN <<192 + (cp \div 64), 128 + (cp % 64)>>
                      ELSE <<224 + (cp \div 4096), 128 + ((cp \div 64) % 64), 128 + (cp % 64)>>
         IN  bytes \o str_encode(Tail(s))

IsContinuation(b, i) == i <= Len(b) /\ b[i] >= 128 /\ b[i] < 192

\* bytes.decode(errors): UTF-8; an undecodable byte raises under "strict" and
\* becomes U+FFFD under "replace"
RECURSIVE bytes_decode(_, _)
bytes_decode(b, errors) ==
    IF b = <<>> THEN [ok |-> TRUE, str |-> <<>>]
    ELSE LET b1 == Head(b)
             used == IF b1 < 128 THEN 1
                     ELSE IF b1 >= 194 /\ b1 < 224 /\ IsContinuation(b, 2) THEN 2
                     ELSE IF b1 >= 224 /\ b1 < 240 /\ IsContinuation(b, 2)
                             /\ IsContinuation(b, 3) THEN 3
                     ELSE 0
             cp == CASE used = 1 -> b1
                    [] used = 2 -> (b1 - 192) * 64 + (b[2] - 128)
                    [] used = 3 -> (b1 - 224) * 4096 + (b[2] - 128) * 64 + (b[3] - 128)
                    [] OTHER -> 65533
             rest == bytes_decode(SubSeq(b, (IF used = 0 THEN 1 ELSE used) + 1, Len(b)), errors)
         IN  IF used = 0 /\ errors = "strict" THEN [ok |-> FALSE, str |-> <<>>]
             ELSE [ok |-> rest.ok, str |-> <<cp>> \o rest.str]

\* base64.b64encode: three bytes become four sextets, a shorter last group is padded
RECURSIVE b64encode(_)
b64encode(b) ==
    IF b = <<>> THEN <<>>
    ELSE LET k == IF Len(b) < 3 THEN Len(b) ELSE 3
             n == b[1] * 65536 + (IF k >= 2 THEN b[2] ELSE 0) * 256
                               + (IF k = 3 THEN b[3] ELSE 0)
             group == << n \div 262144, (n \div 4096) % 64,
                         IF k >= 2 THEN (n \div 64) % 64 ELSE 64,
                         IF k = 3 THEN n % 64 ELSE 64 >>
         IN  group \o b64encode(SubSeq(b, k + 1, Len(b)))

\* base64.b64decode (and base64 -d) of well-formed base64 text
RECURSIVE b64decode(_)
b64decode(e) ==
    IF Len(e) < 4 THEN <<>>
    ELSE LET pad == IF e[3] = 64 THEN 2 ELSE IF e[4] = 64 THEN 1 ELSE 0
             n == e[1] * 262144 + e[2] * 4096 + (IF pad = 2 THEN 0 ELSE e[3]) * 64
                                + (IF pad >= 1 THEN 0 ELSE e[4])
             bytes == << n \div 65536, (n \div 256) % 256, n % 256 >>
         IN  SubSeq(bytes, 1, 3 - pad) \o b64decode(SubSeq(e, 5, Len(e)))

\* KubernetesContainer.write_file: under shared_dir straight to disk; elsewhere
\* through base64 -d in the pod, the file read back and compared
write_file(fs, file_path, content) ==
    IF file_path \in SharedPaths
    THEN [fs |-> [fs EXCEPT ![file_path] = content], raised |-> FALSE]
    ELSE LET written == [fs EXCEPT ![file_path] = b64decode(b64encode(content))]
             written_content == b64decode(b64encode(written[file_path]))
         IN  [fs |-> written, raised |-> written_content # content]

\* what cat prints (stderr is part of the stream) for a file that does not
\* exist: "cat: ..."; the call does not raise
CatNoSuchFile == <<99, 97, 116, 58>>

\* KubernetesContainer.read_file: the output of cat as the stream decodes it,
\* errors being the decoding the kubernetes client library applies
read_file(fs, file_path, errors) ==
    IF fs[file_path] = NoFile THEN [ok |-> TRUE, str |-> CatNoSuchFile]
    ELSE bytes_decode(fs[file_path], errors)

\* server: POST /file
server_save_file(fs, file_path, content) ==
    IF file_path = "" \/ content = <<>> THEN [fs |-> fs, code |-> 400]
    ELSE LET w == write_file(fs, file_path, b64decode(content))
         IN  [fs |-> w.fs, code |-> IF w.raised THEN 500 ELSE 200]

\* server: GET /file
server_get_file(fs, file_path, errors) ==
    IF file_path = "" THEN [code |-> 400, content |-> <<>>]
    ELSE LET content == read_file(fs, file_path, errors)
         IN  IF content.ok
             THEN [code |-> 200, content |-> b64encode(str_encode(content.str))]
             ELSE [code |-> 500, content |-> <<>>]

\* TestbedClient.save_file: raise_for_status raises for 400 and 500
save_file(fs, file_path, content) ==
    LET response == server_save_file(fs, file_path, b64encode(str_encode(content)))
    IN  [fs |-> response.fs,
         out |-> IF response.code = 200 THEN [kind |-> "json"] ELSE [kind |-> "HTTPError"]]

\* TestbedClient.get_file: the text, or {"error": ...} when the request failed
get_file(fs, file_path, errors) ==
    LET response == server_get_file(fs, file_path, errors)
        decoded == bytes_decode(b64decode(response.content), "strict")
    IN  IF response.code # 200 THEN [kind |-> "error"]
        ELSE IF decoded.ok THEN [kind |-> "str", str |-> decoded.str]
        ELSE [kind |-> "UnicodeDecodeError"]

\* a caller saves a text through the client
SaveFile ==
    /\ \E file_path \in Paths, content \in Strs :
         LET r == save_file(file.fs, file_path, content)
         IN  file' = [fs |-> r.fs,
                      wrote |-> [file.wrote EXCEPT ![file_path] = str_encode(content)],
                      op |-> "save", path |-> file_path, out |-> r.out]
    /\ UNCHANGED <<baseVars, grade, req, bulk, laterVars>>

\* a caller posts a payload to POST /file
PostFile ==
    /\ \E file_path \in Paths, payload \in Payloads :
         LET r == server_save_file(file.fs, file_path, b64encode(payload))
         IN  file' = [fs |-> r.fs,
                      wrote |-> [file.wrote EXCEPT ![file_path] = payload],
                      op |-> "post", path |-> file_path, out |-> [kind |-> "code", code |-> r.code]]
    /\ UNCHANGED <<baseVars, grade, req, bulk, laterVars>>

\* a caller reads a file through the client
GetFile ==
    /\ \E file_path \in Paths, errors \in {"strict", "replace"} :
         file' = [file EXCEPT !.op = "get", !.path = file_path,
                              !.out = get_file(file.fs, file_path, errors)]
    /\ UNCHANGED <<baseVars, grade, req, bulk, laterVars>>

FileNext == SaveFile \/ PostFile \/ GetFile

SpecFile == Init /\ [][FileNext]_vars

\* C13: a read of a path gives exactly the bytes last written to it, for every
\* byte sequence, the empty one included.
C13_RoundTrip ==
    (file.op = "get" /\ file.wrote[file.path] # NoFile)
        => /\ file.out.kind = "str"
           /\ str_encode(file.out.str) = file.wrote[file.path]

----------------------------------------------------------------------------
(* SpecRetry: TestbedClient._request (sdk), one step per pass of its loop.  *)

\* largest max_retries a caller passes
MaxRetries == 4
\* largest operation_timeout a caller passes, in seconds
MaxOperationTimeout == 5
\* max_retry_delay, in seconds
MaxRetryDelay == 2
\* longest time one request takes before it answers or fails, in seconds
MaxAttemptTime == 2

\* RequestException that is no HTTPError below 500
Transient == {"HTTPError 5xx", "Timeout", "ConnectionError"}
AttemptOutcomes == {"ok", "HTTPError 4xx"} \cup Transient

Min(a, b) == IF a < b THEN a ELSE b

\* sdk/client.py:128-149 without the test of the status code: a client error
\* is handled as every other RequestException
request_attempt_retrying_client_errors(r, outcome, dt) ==
    LET sent == [r EXCEPT !.attempts = @ + 1, !.last = outcome, !.elapsed = @ + dt] IN
    IF outcome = "ok" THEN [sent EXCEPT !.pc = "returned", !.out = "json"]
    ELSE LET failed == [sent EXCEPT !.retries = @ + 1] IN
         IF failed.retries = failed.max_retries
         THEN [failed EXCEPT !.pc = "raised", !.out = outcome]
         ELSE [failed EXCEPT !.pc = "sleep"]

\* sdk/client.py:128-149: one request and the handling of its failure
request_attempt(r, outcome, dt) ==
    LET sent == [r EXCEPT !.attempts = @ + 1, !.last = outcome, !.elapsed = @ + dt] IN
    IF outcome = "ok" THEN [sent EXCEPT !.pc = "returned", !.out = "json"]
    ELSE LET failed == [sent EXCEPT !.retries = @ + 1] IN
         IF outcome = "HTTPError 4xx"
         THEN [failed EXCEPT !.pc = "raised", !.out = outcome]
         ELSE IF failed.retries = failed.max_retries
         THEN [failed EXCEPT !.pc = "raised", !.out = outcome]
         ELSE [failed EXCEPT !.pc = "sleep"]

\* sdk/client.py:103-121
RequestStart ==
    /\ req.pc = "idle"
    /\ \E max_retries \in 0..MaxRetries, operation_timeout \in 1..MaxOperationTimeout :
         req' = Req("loop", max_retries, operation_timeout)
    /\ UNCHANGED <<baseVars, grade, file, bulk, laterVars>>

\* sdk/client.py:122, 165: the loop ends without a request having been sent
RequestLoopEnds ==
    /\ req.pc = "loop" /\ ~(req.retries < req.max_retries)
    /\ req' = [req EXCEPT !.pc = "raised", !.out = "Exception"]
    /\ UNCHANGED <<baseVars, grade, file, bulk, laterVars>>

\* sdk/client.py:123-126
RequestTimesOut ==
    /\ req.pc = "loop" /\ req.retries < req.max_retries
    /\ req.elapsed > req.operation_timeout
    /\ req' = [req EXCEPT !.pc = "raised", !.out = "TimeoutError"]
    /\ UNCHANGED <<baseVars, grade, file, bulk, laterVars>>

\* sdk/client.py:128-149
RequestAttempt ==
    /\ req.pc = "loop" /\ req.retries < req.max_retries
    /\ ~(req.elapsed > req.operation_timeout)
    /\ \E outcome \in AttemptOutcomes, dt \in 0..MaxAttemptTime :
         req' = request_attempt(req, outcome, dt)
    /\ UNCHANGED <<baseVars, grade, file, bulk, laterVars>>

\* sdk/client.py:158-163 without the min of line 161: the delay doubles
\* without a limit
RequestSleepUncapped ==
    /\ req.pc = "sleep"
    /\ req' = [req EXCEPT !.pc = "loop", !.elapsed = @ + req.retry_delay,
                          !.retry_delay = req.retry_delay * 2]
    /\ UNCHANGED <<baseVars, grade, file, bulk, laterVars>>

\* sdk/client.py:158-163: the sleep and the exponential backoff
RequestSleep ==
    /\ req.pc = "sleep"
    /\ req' = [req EXCEPT !.pc = "loop", !.elapsed = @ + req.retry_delay,
                          !.retry_delay = Min(req.retry_delay * 2, MaxRetryDelay)]
    /\ UNCHANGED <<baseVars, grade, file, bulk, laterVars>>

\* the caller has its answer; the next call starts afresh
RequestDone ==
    /\ req.pc \in {"returned", "raised"}
    /\ req' = Req("idle", 0, 0)
    /\ UNCHANGED <<baseVars, grade, file, bulk, laterVars>>

RetryNext ==
    \/ RequestStart \/ RequestLoopEnds \/ RequestTimesOut \/ RequestAttempt
    \/ RequestSleep \/ RequestDone

SpecRetry == Init /\ [][RetryNext]_vars

\* a client error ends the call: the error is raised and no request follows it
ClientErrorIsFinal ==
    req.last = "HTTPError 4xx" => (req.pc = "raised" /\ req.out = "HTTPError 4xx")

\* C14 as stated: no more than max_retries requests are sent; a client error is
\* raised at once; after a transient failure the call goes on to the next
\* request until max_retries requests have failed, and then raises that failure.
C14_RetryAsStated ==
    /\ req.attempts <= req.max_retries
    /\ ClientErrorIsFinal
    /\ (req.last \in Transient /\ req.pc = "raised")
          => (req.attempts = req.max_retries /\ req.out = req.last)
    /\ (req.last \in Transient /\ req.attempts = req.max_retries) => req.pc = "raised"

\* C14: no more than max_retries requests are sent; a client error is raised at
\* once; after a transient failure the call goes on to the next request until
\* max_retries requests have failed, and then raises that failure, unless more
\* than operation_timeout has passed when the next request is due: then it
\* raises TimeoutError.
C14_RetryPolicy ==
    /\ req.attempts <= req.max_retries
    /\ ClientErrorIsFinal
    /\ (req.last \in Transient /\ req.pc = "raised")
          => \/ req.attempts = req.max_retries /\ req.out = req.last
             \/ /\ req.attempts < req.max_retries
                /\ req.out = "TimeoutError"
                /\ req.elapsed > req.operation_timeout
    /\ (req.last \in Transient /\ req.attempts = req.max_retries) => req.pc = "raised"

\* three requests, two retried after a client-side failure, the last failure raised
C14_Witness ==
    /\ req.pc = "raised" /\ req.attempts = MaxRetries /\ req.max_retries = MaxRetries
    /\ req.last = "ConnectionError" /\ req.out = "ConnectionError"

----------------------------------------------------------------------------
(* SpecFault: create_testbed and delete_testbed with cluster API calls that *)
(* fail inside create_testbed, and the two bulk deletions.                  *)

\* what can go wrong inside create_testbed once the job is created:
\* create_namespaced_service raises an ApiException that is no Conflict, or
\* _get_job does not see the job before the timeout
CreateFaults == {"service ApiException", "job wait timeout"}

\* manager.py:151-192 under a fault: no handler deletes what was created
create_testbed_fault(c, instance_id, user_id, suffix, ip, fault) ==
    LET testbed_id == generate_test_id(instance_id, suffix) IN
    IF c.jobs[testbed_id] # NoJob
    THEN Result(c, "ValueError", NoId)
    ELSE LET c1 == [c EXCEPT !.jobs[testbed_id] = user_id] IN
         IF fault = "service ApiException"
         THEN Result(c1, "RuntimeError", NoId)
         ELSE IF c1.services[testbed_id] # "None"
              THEN Result(c1, "ValueError", NoId)
              ELSE Result([c1 EXCEPT !.services[testbed_id] = ip], "TimeoutError", NoId)

\* the target of the call is the id _generate_test_id drew
CreateTestbedFault(instance_id, user_id) ==
    \E suffix \in Suffixes, ip \in ServiceStates, fault \in CreateFaults :
        Commit("create_testbed", user_id, generate_test_id(instance_id, suffix),
               create_testbed_fault(Cluster, instance_id, user_id, suffix, ip, fault))

\* the resources of the cluster that belong to the testbeds of user_id
Job(id) == <<"job", id>>
Service(id) == <<"service", id>>
OwnedResources(c, user_id) ==
    {Job(id) : id \in {i \in TestbedIds : c.jobs[i] = user_id}}
        \cup {Service(id) : id \in {i \in TestbedIds : c.jobs[i] = user_id
                                                       /\ c.services[i] # "None"}}
Resources(c) ==
    {Job(id) : id \in {i \in TestbedIds : c.jobs[i] # NoJob}}
        \cup {Service(id) : id \in {i \in TestbedIds : c.services[i] # "None"}}

\* the first id of a set in name order, the order list_namespaced_job answers in
FirstId(ids) == CHOOSE id \in ids : \A o \in ids : id[2] <= o[2]

\* manager.py:288-298: the loop of delete_all_testbeds over the listed jobs.
\* failing: the testbeds whose delete_namespaced_service raises an ApiException
\* that is no 404, which delete_testbed turns into RuntimeError.
RECURSIVE delete_each(_, _, _, _)
delete_each(c, ids, user_id, failing) ==
    IF ids = {} THEN [c |-> c, deleted_count |-> 0]
    ELSE LET id == FirstId(ids)
             r == IF id \in failing THEN Result(c, "RuntimeError", NoId)
                  ELSE delete_testbed(c, id, user_id)
             rest == delete_each(r.c, ids \ {id}, user_id, failing)
         IN  [c |-> rest.c,
              deleted_count |-> rest.deleted_count + (IF r.out = "RuntimeError" THEN 0 ELSE 1)]

\* manager.py:284-300
delete_all_testbeds(c, user_id, failing) ==
    delete_each(c, {id \in TestbedIds : c.jobs[id] = user_id}, user_id, failing)

\* cleanup_user_resources with every job of the namespace listed: the
\* label_selector of line 495 left out
cleanup_user_resources_without_selector(c, user_id, failing) ==
    LET listed == {id \in TestbedIds : c.jobs[id] # NoJob}
        deleted == listed \ failing
        labelled_services == {}
    IN  [c |-> [c EXCEPT !.jobs = [id \in TestbedIds |->
                                      IF id \in deleted THEN NoJob ELSE c.jobs[id]],
                         !.pods = [id \in TestbedIds |->
                                      IF id \in deleted THEN "None" ELSE c.pods[id]],
                         !.health = [id \in TestbedIds |->
                                      IF id \in deleted THEN FALSE ELSE c.health[id]],
                         !.sbxWriter = [id \in TestbedIds |->
                                      IF id \in deleted THEN Nobody ELSE c.sbxWriter[id]]],
         deleted_count |-> Cardinality(deleted) + Cardinality(labelled_services)]

\* manager.py:490-521.  The jobs are listed by their user-id label and deleted
\* one by one; the service manifest is rendered without a user id
\* (manager.py:481-488), so the list of services with the label is empty.
\* failing: the jobs whose delete_namespaced_job raises.
cleanup_user_resources(c, user_id, failing) ==
    LET listed == {id \in TestbedIds : c.jobs[id] = user_id}
        deleted == listed \ failing
        labelled_services == {}
    IN  [c |-> [c EXCEPT !.jobs = [id \in TestbedIds |->
                                      IF id \in deleted THEN NoJob ELSE c.jobs[id]],
                         !.pods = [id \in TestbedIds |->
                                      IF id \in deleted THEN "None" ELSE c.pods[id]],
                         !.health = [id \in TestbedIds |->
                                      IF id \in deleted THEN FALSE ELSE c.health[id]],
                         !.sbxWriter = [id \in TestbedIds |->
                                      IF id \in deleted THEN Nobody ELSE c.sbxWriter[id]]],
         deleted_count |-> Cardinality(deleted) + Cardinality(labelled_services)]

\* a bulk deletion leaves the cluster r.c; bulk records the resources the
\* caller owned that the call left although no deletion of them was refused, the
\* number of deletions that took effect (testbeds for delete_all_testbeds,
\* resources for cleanup_user_resources), and the count returned
CommitBulk(op, user_id, failing, r) ==
    LET owned == OwnedResources(Cluster, user_id)
        failed == {x \in owned : x[2] \in failing}
        gone == owned \ Resources(r.c)
    IN  /\ jobs' = r.c.jobs
        /\ services' = r.c.services
        /\ pods' = r.c.pods
        /\ health' = r.c.health
        /\ sbxWriter' = r.c.sbxWriter
        /\ ret' = [op |-> op, caller |-> user_id, target |-> NoId, out |-> "count", id |-> NoId]
        /\ bulk' = [op |-> op, user |-> user_id,
                    left |-> (owned \cap Resources(r.c)) \ failed,
                    succeeded |-> IF op = "delete_all_testbeds"
                                  THEN Cardinality({x \in gone : x[1] = "job"})
                                  ELSE Cardinality(gone),
                    deleted_count |-> r.deleted_count]
        /\ UNCHANGED <<concVars, execVars, wait, poll, run, grade, file, req, laterVars>>

DeleteAllTestbeds(user_id) ==
    \E failing \in SUBSET TestbedIds :
        CommitBulk("delete_all_testbeds", user_id, failing,
                   delete_all_testbeds(Cluster, user_id, failing))

CleanupUserResources(user_id) ==
    \E failing \in SUBSET TestbedIds :
        CommitBulk("cleanup_user_resources", user_id, failing,
                   cleanup_user_resources(Cluster, user_id, failing))

FaultCall ==
    \/ \E i \in Instances, u \in Users : CreateTestbedFault(i, u)
    \/ \E u \in Users : DeleteAllTestbeds(u)
    \/ \E u \in Users : CleanupUserResources(u)

NextFault ==
    \/ \E i \in Instances, u \in Users : CreateTestbed(i, u)
    \/ \E id \in TestbedIds, u \in Users : DeleteTestbed(id, u)
    \/ FaultCall

SpecFault == Init /\ [][NextFault]_vars

\* C15: delete_testbed of a sandbox that is absent succeeds: when neither the
\* job nor the service of the target exists after the call, the call has
\* raised no error.
C15_DeleteAbsentSucceeds ==
    (ret.op = "delete_testbed" /\ jobs[ret.target] = NoJob /\ services[ret.target] = "None")
        => ret.out # "RuntimeError"

\* C16: after delete_testbed has returned without error, neither the job nor
\* the service of the sandbox exists.
C16_DeleteRemovesBoth ==
    (ret.op = "delete_testbed" /\ ret.out # "RuntimeError")
        => (jobs[ret.target] = NoJob /\ services[ret.target] = "None")

\* C17: after create_testbed has failed for the id it drew, no job and no
\* service of that id remains.
C17_FailedCreateLeavesNothing ==
    (ret.op = "create_testbed" /\ ret.out \in {"RuntimeError", "TimeoutError"})
        => (jobs[ret.target] = NoJob /\ services[ret.target] = "None")

\* C18: the client create_client returns is bound to a sandbox id whose job,
\* owned by the caller, and whose service both exist.
C18_ClientBoundToLiveSandbox ==
    (ret.op = "create_client" /\ ret.out = "client")
        => (jobs[ret.id] = ret.caller /\ services[ret.id] # "None")

\* C19: a bulk deletion leaves no resource of the caller whose deletion the
\* cluster did not refuse, and the count it returns is the number of deletions
\* that took effect.
C19_BulkDeletesAndCounts ==
    bulk.op # "none" => (bulk.left = {} /\ bulk.deleted_count = bulk.succeeded)

\* C20: every run_evaluation call that has ended has given its caller a
\* result value: a patch that does not apply, failing tests and a timed-out
\* execution raise nothing.
C20_OutcomesAreResults ==
    run.pc = "done" => run.out = "result"

\* C21: a run whose test Execution did not complete, which the sandbox reports
\* as status "failed" for a timeout as for every other exception of the stream
\* (kubernetes.py:226-229), does not end with a graded result.
C21_TimeoutIsNotGraded ==
    (run.pc = "done" /\ run.tests /\ run.status = "failed") => run.out # "result"

----------------------------------------------------------------------------
(* SpecTree: the working tree of one sandbox over successive calls of       *)
(* TestbedClient.run_evaluation.  The tree is the set of files that differ  *)
(* from the base commit.                                                    *)

\* number of run_evaluation calls on the sandbox
MaxRuns == 2

\* the files the test patch touches, and the files of the repository
TestFiles == {"tests/test_a.py"}
Files == TestFiles \cup {"src/a.py", "src/b.py"}

\* a patch, as the set of files it modifies
Patches == (SUBSET Files) \ {{}}

\* test_spec.py:227-228: git checkout <base_commit> <the files of the test patch>
reset_tests_command(modified) == modified \ TestFiles

\* TestSpec.reset_commands, which client.py:363 reads and test_spec.py does not
\* define: the Reset step, a checkout of the test files touched by the test
\* patch back to the base commit
reset_commands(modified) == reset_tests_command(modified)

\* client/client.py:427-437
TreeRunStart ==
    /\ tree.pc \in {"idle", "done"} /\ tree.runs < MaxRuns
    /\ \E patch \in Patches :
         tree' = [tree EXCEPT !.pc = "reset", !.patch = patch, !.runs = @ + 1]
    /\ UNCHANGED <<baseVars, grade, file, req, bulk, ign, blk, plog, stitch, dj, arch, steps, sub, hdl, pa, ctx, wr, zq>>

\* client/client.py:439 and 362-363
TreeReset ==
    /\ tree.pc = "reset"
    /\ tree' = [tree EXCEPT !.pc = "apply_patch", !.modified = reset_commands(tree.modified)]
    /\ UNCHANGED <<baseVars, grade, file, req, bulk, ign, blk, plog, stitch, dj, arch, steps, sub, hdl, pa, ctx, wr, zq>>

\* client/client.py:443-452 and test_spec.py:122-141: the patch applies, or
\* neither git apply nor patch applies it and the run ends
TreeApplyPatch ==
    /\ tree.pc = "apply_patch"
    /\ \/ tree' = [tree EXCEPT !.pc = "reset_tests", !.modified = @ \cup tree.patch]
       \/ tree' = [tree EXCEPT !.pc = "done"]
    /\ UNCHANGED <<baseVars, grade, file, req, bulk, ign, blk, plog, stitch, dj, arch, steps, sub, hdl, pa, ctx, wr, zq>>

\* test_spec.py:232-233: the first command of the eval script after the setup
TreeResetTests ==
    /\ tree.pc = "reset_tests"
    /\ tree' = [tree EXCEPT !.pc = "apply_test_patch",
                            !.modified = reset_tests_command(tree.modified)]
    /\ UNCHANGED <<baseVars, grade, file, req, bulk, ign, blk, plog, stitch, dj, arch, steps, sub, hdl, pa, ctx, wr, zq>>

\* test_spec.py:230, 234: git apply of the test patch
TreeApplyTestPatch ==
    /\ tree.pc = "apply_test_patch"
    /\ tree' = [tree EXCEPT !.pc = "test", !.modified = @ \cup TestFiles]
    /\ UNCHANGED <<baseVars, grade, file, req, bulk, ign, blk, plog, stitch, dj, arch, steps, sub, hdl, pa, ctx, wr, zq>>

\* test_spec.py:235-236: the tests run, then the test files are checked out again
TreeRunTests ==
    /\ tree.pc = "test"
    /\ tree' = [tree EXCEPT !.pc = "done", !.modified = reset_tests_command(tree.modified)]
    /\ UNCHANGED <<baseVars, grade, file, req, bulk, ign, blk, plog, stitch, dj, arch, steps, sub, hdl, pa, ctx, wr, zq>>

TreeNext ==
    \/ TreeRunStart \/ TreeReset \/ TreeApplyPatch \/ TreeResetTests
    \/ TreeApplyTestPatch \/ TreeRunTests

SpecTree == Init /\ [][TreeNext]_vars

\* C22: when the Reset step of a run has been carried out, no file of the
\* working tree differs from the base commit.
C22_ResetRestoresBase ==
    tree.pc = "apply_patch" => tree.modified = {}

----------------------------------------------------------------------------
(* SpecIgnore: what TestbedClient.run_tests and TestbedClient.run_evaluation *)
(* make of the log of a test run and of the task's ignore-list.  A log is   *)
(* the one of SpecGrade: every test that is not among the passed has failed. *)

\* parse_log: the status of every test of the log
test_result(content) ==
    [t \in Tests |-> IF t \in content.passed THEN "PASSED" ELSE "FAILED"]

\* client/client.py:397-425: the results without the ignored tests, and the
\* number of results of each status
run_tests(content, ignored_tests) ==
    LET filtered_test_result ==
            {<<t, test_result(content)[t]>> : t \in Tests \ ignored_tests}
    IN  [test_results |-> filtered_test_result,
         statuses |-> [s \in {"PASSED", "FAILED"} |->
                          Cardinality({r \in filtered_test_result : r[2] = s})]]

\* client/client.py:477-485: the output is graded as it is; ignored_tests is
\* not read
run_evaluation(spec, content, ignored_tests) ==
    LET test_status == get_pred_report(spec, content)
    IN  [resolved |-> test_status.status = "FULL", tests_status |-> test_status.result]

\* what a call gives its caller
CallOut(op, spec, content, ignored_tests) ==
    IF op = "run_tests" THEN run_tests(content, ignored_tests)
    ELSE run_evaluation(spec, content, ignored_tests)

IgnCall(op) ==
    /\ ign.pc = "idle"
    /\ \E spec \in Specs, content \in Logs, ignored_tests \in SUBSET Tests :
         ign' = [pc |-> "done", op |-> op, spec |-> spec, content |-> content,
                 ignored_tests |-> ignored_tests,
                 out |-> CallOut(op, spec, content, ignored_tests)]
    /\ UNCHANGED <<baseVars, grade, file, req, bulk, tree, blk, plog, stitch, dj, arch, steps, sub, hdl, pa, ctx, wr, zq>>

RunTestsCall == IgnCall("run_tests")

RunEvaluationCall == IgnCall("run_evaluation")

\* the caller has its answer; the next call starts afresh
IgnReturn ==
    /\ ign.pc = "done"
    /\ ign' = [pc |-> "idle"]
    /\ UNCHANGED <<baseVars, grade, file, req, bulk, tree, blk, plog, stitch, dj, arch, steps, sub, hdl, pa, ctx, wr, zq>>

IgnoreNext == RunTestsCall \/ RunEvaluationCall \/ IgnReturn

SpecIgnore == Init /\ [][IgnoreNext]_vars

\* the logs that differ from content in the outcome of ignored tests only
SameButIgnored(content, ignored_tests) ==
    {c \in Logs : c.marker = content.marker
                  /\ c.passed \ ignored_tests = content.passed \ ignored_tests}

\* C23: what run_tests and run_evaluation return does not depend on the outcome
\* of an ignored test: a log that differs in ignored tests only gives the same
\* results, counts and verdict.
C23_IgnoredNeverCounts ==
    ign.pc = "done"
        => \A c \in SameButIgnored(ign.content, ign.ignored_tests) :
              CallOut(ign.op, ign.spec, c, ign.ignored_tests) = ign.out

----------------------------------------------------------------------------
(* SpecBlock: the blocking operations other than execution polling.  While  *)
(* an operation blocks, its position alternates between "probe" and         *)
(* "sleep"; the steps of the operations are weakly fair, the answers of the *)
(* peer are not.                                                            *)

\* largest timeout wait_until_ready is called with, in passes of its loop
MaxBlockTimeout == 20

BlockOps == {"check_container_reachability", "GET /health", "_read_testbed_status",
             "wait_until_ready"}

Blocked == blk.pc \in {"probe", "sleep"}

BlockStart ==
    /\ blk.pc = "idle"
    /\ \E op \in BlockOps :
         IF op = "wait_until_ready"
         THEN \E timeout \in 1..MaxBlockTimeout : blk' = Blk(op, "probe", timeout)
         ELSE blk' = Blk(op, "probe", 0)
    /\ UNCHANGED <<baseVars, grade, file, req, bulk, tree, ign, plog, stitch, dj, arch, steps, sub, hdl, pa, ctx, wr, zq>>

\* testbed/server.py:22-26, and 29-35 which calls it: `while not
\* container.is_reachable()` has no deadline
ReachabilityProbe ==
    /\ blk.op \in {"check_container_reachability", "GET /health"} /\ blk.pc = "probe"
    /\ \E is_reachable \in BOOLEAN :
         IF is_reachable
         THEN blk' = [blk EXCEPT !.pc = "returned",
                         !.out = IF blk.op = "GET /health" THEN "200" ELSE "True"]
         ELSE blk' = [blk EXCEPT !.pc = "sleep"]
    /\ UNCHANGED <<baseVars, grade, file, req, bulk, tree, ign, plog, stitch, dj, arch, steps, sub, hdl, pa, ctx, wr, zq>>

\* manager.py:378-390: requests.get of the health URL is called without a
\* timeout; the call ends when the peer answers or the connection fails
HealthProbe ==
    /\ blk.op = "_read_testbed_status" /\ blk.pc = "probe"
    /\ \E answer \in {"200 OK", "other", "ConnectionError", "silent"} :
         CASE answer = "200 OK" -> blk' = [blk EXCEPT !.pc = "returned", !.out = "Running"]
           [] answer = "silent" -> blk' = [blk EXCEPT !.pc = "sleep"]
           [] OTHER -> blk' = [blk EXCEPT !.pc = "returned", !.out = "Pending"]
    /\ UNCHANGED <<baseVars, grade, file, req, bulk, tree, ign, plog, stitch, dj, arch, steps, sub, hdl, pa, ctx, wr, zq>>

\* client/client.py:110-174: the loop ends when the timeout has passed; its
\* health probe has a timeout of its own
WaitProbe ==
    /\ blk.op = "wait_until_ready" /\ blk.pc = "probe"
    /\ IF ~(blk.passes < blk.timeout)
       THEN blk' = [blk EXCEPT !.pc = "returned", !.out = "None"]
       ELSE \E ready \in BOOLEAN :
              IF ready
              THEN blk' = [blk EXCEPT !.pc = "returned", !.out = "testbed"]
              ELSE blk' = [blk EXCEPT !.pc = "sleep"]
    /\ UNCHANGED <<baseVars, grade, file, req, bulk, tree, ign, plog, stitch, dj, arch, steps, sub, hdl, pa, ctx, wr, zq>>

\* time.sleep, or the wait for the peer going on; the passes of
\* wait_until_ready are counted
BlockSleep ==
    /\ blk.pc = "sleep"
    /\ blk' = [blk EXCEPT !.pc = "probe",
                          !.passes = IF blk.op = "wait_until_ready" THEN @ + 1 ELSE @]
    /\ UNCHANGED <<baseVars, grade, file, req, bulk, tree, ign, plog, stitch, dj, arch, steps, sub, hdl, pa, ctx, wr, zq>>

\* the caller has its answer
BlockDone ==
    /\ blk.pc = "returned"
    /\ blk' = Blk("none", "idle", 0)
    /\ UNCHANGED <<baseVars, grade, file, req, bulk, tree, ign, plog, stitch, dj, arch, steps, sub, hdl, pa, ctx, wr, zq>>

BlockNext ==
    \/ BlockStart \/ ReachabilityProbe \/ HealthProbe \/ WaitProbe
    \/ BlockSleep \/ BlockDone

SpecBlock == Init /\ [][BlockNext]_vars /\ WF_vars(BlockNext)

\* C24: every blocking operation that has begun returns or raises, also when
\* the sandbox never becomes ready and the peer never answers.
C24_BlockingEnds == Blocked ~> (blk.pc = "returned")

----------------------------------------------------------------------------
(* SpecParse: the log parsers (swebench/log_parsers.py) on a log of one line. *)
(* A line is the sequence of words line.split() gives; the string tests of    *)
(* the parsers are tables over the words.                                     *)

MaxWords == 3

\* testbed.schema.TestStatus, the four outcomes
TestStatus == {"PASSED", "FAILED", "SKIPPED", "ERROR"}

\* the words of a line: two outcomes, a word that begins with an outcome and is
\* none, pytest's [n] of a skipped test, test ids with and without "::", a
\* sympy test name and its outcome
Words == {"PASSED", "SKIPPED", "PASSEDX", "[1]", "t.py::test_a", "t.py:3", "test_a", "ok"}

Lines == UNION {[1..n -> Words] : n \in 0..MaxWords}

\* word.startswith(x.value) for some x in TestStatus
StartsWithStatus(word) == word \in TestStatus \cup {"PASSEDX"}

\* word.endswith(x.value) for some x in TestStatus
EndsWithStatus(word) == word \in TestStatus

\* "::" in word
HasDoubleColon(word) == word = "t.py::test_a"

\* ":" in word
HasColon(word) == word \in {"t.py::test_a", "t.py:3"}

\* word.startswith("[") and word.endswith("]")
Bracketed(word) == word = "[1]"

\* word.startswith("test_")
StartsWithTest(word) == word = "test_a"

Skipped == Out("skipped", "None", <<>>, <<>>, "None")

Raised(exception) == Out("raised", exception, <<>>, <<>>, "None")

\* log_parsers.py:22-92, the body of the loop for one line (the words carry no
\* escape codes, options in brackets after a name, or " - ")
parse_log_pytest(line) ==
    LET n == Len(line)
        starts == n > 0 /\ StartsWithStatus(line[1])
        ends == n > 0 /\ EndsWithStatus(line[n])
        status_str == IF starts THEN line[1] ELSE line[n]
        status == IF status_str \in TestStatus THEN status_str ELSE "ERROR"
        full_name == SubSeq(line, 2, n)
        parts == {i \in 1..Len(full_name) : HasDoubleColon(full_name[i])}
        first == CHOOSE i \in parts : \A j \in parts : i <= j
    IN  IF ~(starts \/ ends) THEN Skipped
        ELSE IF n <= 1 THEN Skipped
        ELSE IF status_str # "SKIPPED" /\ \A i \in 1..n : ~HasDoubleColon(line[i])
        THEN Skipped
        ELSE IF status = "SKIPPED" /\ Bracketed(line[2])
        THEN IF n < 3 THEN Raised("IndexError")
             ELSE IF ~HasColon(line[3]) THEN Raised("ValueError")
             ELSE Out("result", status, SubSeq(line, 3, n), <<"t.py">>, "None")
        ELSE IF parts = {} THEN Out("result", status, full_name, <<>>, "None")
        ELSE Out("result", status, full_name,
                 SubSeq(full_name, 1, first - 1) \o <<"t.py">>, "test_a")

\* log_parsers.py:306-318, the first loop for one line (the second loop, which
\* attaches failure output, raises nothing)
parse_log_sympy(line) ==
    LET n == Len(line)
        Test(status) == Out("result", status, <<line[1]>>, <<>>, line[1])
    IN  IF ~(n > 0 /\ StartsWithTest(line[1])) THEN Skipped
        ELSE IF n < 2 THEN Raised("IndexError")
        ELSE IF line[2] = "ok" THEN Test("PASSED")
        ELSE IF line[2] = "F" THEN Test("FAILED")
        ELSE IF line[2] = "E" THEN Test("ERROR")
        ELSE Skipped

\* log_parsers.py:355-365, the body of the loop for one line
parse_log_matplotlib(line) ==
    LET n == Len(line)
    IN  IF ~(n > 0 /\ StartsWithStatus(line[1])) THEN Skipped
        ELSE IF n <= 1 THEN Skipped
        ELSE IF line[1] \notin TestStatus THEN Raised("ValueError")
        ELSE Out("result", line[1], <<line[2]>>, <<>>, "None")

ParseCall(parser, line, out) ==
    /\ plog.pc = "idle"
    /\ plog' = [pc |-> "returned", parser |-> parser, line |-> line, out |-> out]
    /\ UNCHANGED <<baseVars, grade, file, req, bulk, tree, ign, blk, stitch, dj, arch, steps, sub, hdl, pa, ctx, wr, zq>>

ParseLogPytest == \E line \in Lines : ParseCall("pytest", line, parse_log_pytest(line))

ParseLogSympy == \E line \in Lines : ParseCall("sympy", line, parse_log_sympy(line))

ParseLogMatplotlib ==
    \E line \in Lines : ParseCall("matplotlib", line, parse_log_matplotlib(line))

\* the caller has its answer; the next call starts afresh
ParseReturn ==
    /\ plog.pc = "returned"
    /\ plog' = [pc |-> "idle", parser |-> "none", line |-> <<>>,
                out |-> Out("none", "None", <<>>, <<>>, "None")]
    /\ UNCHANGED <<baseVars, grade, file, req, bulk, tree, ign, blk, stitch, dj, arch, steps, sub, hdl, pa, ctx, wr, zq>>

ParseNext == ParseLogPytest \/ ParseLogSympy \/ ParseLogMatplotlib \/ ParseReturn

SpecParse == Init /\ [][ParseNext]_vars

\* the line begins with an outcome's name and its first word is no outcome
UnknownStatusPrefixed(line) ==
    Len(line) > 0 /\ StartsWithStatus(line[1]) /\ line[1] \notin TestStatus

\* C25 (SpecParse): no log parser raises on any input text, and a line that is
\* status-prefixed with an unknown status gives a result with status error; it
\* is neither dropped nor raised on.
C25_ParsersNeverRaise ==
    plog.pc = "returned" =>
        /\ plog.out.kind # "raised"
        /\ (plog.parser \in {"pytest", "matplotlib"} /\ UnknownStatusPrefixed(plog.line))
              => (plog.out.kind = "result" /\ plog.out.status = "ERROR")

----------------------------------------------------------------------------
(* SpecStitch: parse_log_pytest on a whole log: the failures section, the     *)
(* short test summary, and the stitching of the one onto the other.           *)

\* the tests of a log, each a file and a function; two share the function name
Cases == {<<"a.py", "test_x">>, <<"b.py", "test_x">>, <<"a.py", "test_y">>}

CaseOrder == <<<<"a.py", "test_x">>, <<"b.py", "test_x">>, <<"a.py", "test_y">>>>

NoCase == <<"None", "None">>

\* what pytest reports of each test: nothing, or an outcome
Outcomes == [Cases -> {"none", "PASSED", "FAILED", "ERROR"}]

\* one line of a log
Line(kind, status, case) == [kind |-> kind, status |-> status, case |-> case]

\* "=== FAILURES ===", "=== ERRORS ===", "=== short test summary info ==="
FailuresBanner == Line("failures", "None", NoCase)

ErrorsBanner == Line("rule", "None", NoCase)

SummaryBanner == Line("summary", "None", NoCase)

\* pytest's block of a test: "____ test_x ____" in the failures section,
\* "____ ERROR at setup of test_x ____" in the errors section, and the
\* traceback under it
Header(section, case) == Line("header", section, case)

Traceback(case) == Line("text", "None", case)

Block(section, case) == <<Header(section, case), Traceback(case)>>

\* "FAILED a.py::test_x" of the short test summary
StatusLine(status, case) == Line("status", status, case)

RECURSIVE Concat(_, _)
Concat(f, order) ==
    IF order = <<>> THEN <<>> ELSE f[Head(order)] \o Concat(f, Tail(order))

\* the log of a pytest run: the blocks of the failed tests, the blocks of the
\* tests in error, and the summary; blocks are the tests whose block is there
pytest_log(outcome, blocks) ==
    LET failures == [c \in Cases |->
            IF outcome[c] = "FAILED" /\ c \in blocks THEN Block("FAILED", c) ELSE <<>>]
        errors == [c \in Cases |->
            IF outcome[c] = "ERROR" /\ c \in blocks THEN Block("ERROR", c) ELSE <<>>]
        summary == [c \in Cases |->
            IF outcome[c] = "none" THEN <<>> ELSE <<StatusLine(outcome[c], c)>>]
    IN  <<FailuresBanner>> \o Concat(failures, CaseOrder)
        \o <<ErrorsBanner>> \o Concat(errors, CaseOrder)
        \o <<SummaryBanner>> \o Concat(summary, CaseOrder)

\* line.strip("_ ") of a header: the function name, after "ERROR at setup of "
\* in the errors section
HeaderKey(line) ==
    IF line.status = "ERROR" THEN <<"ERROR at setup of", line.case[2]>>
    ELSE <<"", line.case[2]>>

NoKey == <<"None", "None">>

\* log_parsers.py:12-20, the locals of parse_log_pytest before its loop
PytestLocals ==
    [test_results |-> <<>>, failure_outputs |-> <<>>, current_failure |-> NoKey,
     current_section |-> <<>>, failures_phase |-> FALSE]

\* failure_outputs[current_failure].extend(current_section)
extend(l) ==
    IF l.current_failure # NoKey /\ l.current_section # <<>>
    THEN [l EXCEPT !.failure_outputs =
            [k \in DOMAIN l.failure_outputs |->
                IF k = l.current_failure
                THEN l.failure_outputs[k] \o l.current_section
                ELSE l.failure_outputs[k]]]
    ELSE l

\* log_parsers.py:38-92: a status line gives a TestResult
summary_line(l, line) ==
    IF line.kind = "status"
    THEN [l EXCEPT !.test_results = Append(@,
            [status |-> line.status, name |-> line.case, file_path |-> line.case[1],
             method |-> line.case[2], failure_output |-> <<>>])]
    ELSE l

\* log_parsers.py:94-107: the failures phase
failures_line(l, line) ==
    IF ~l.failures_phase THEN l
    ELSE IF line.kind = "header"
    THEN LET key == HeaderKey(line)
             flushed == extend(l)
         IN  [flushed EXCEPT
                !.current_failure = key,
                !.failure_outputs =
                    [k \in DOMAIN flushed.failure_outputs \cup {key} |->
                        IF k = key THEN <<>> ELSE flushed.failure_outputs[k]],
                !.current_section = <<>>]
    ELSE IF line.kind = "rule"
    THEN [extend(l) EXCEPT !.current_failure = NoKey, !.current_section = <<>>]
    ELSE IF l.current_failure # NoKey
    THEN [l EXCEPT !.current_section = Append(@, line.case)]
    ELSE l

\* log_parsers.py:22-107, the loop
RECURSIVE pytest_loop(_, _)
pytest_loop(l, lines) ==
    IF lines = <<>> THEN l
    ELSE LET line == Head(lines)
             after ==
                IF line.kind = "summary" THEN [l EXCEPT !.failures_phase = FALSE]
                ELSE IF line.kind = "failures" THEN [l EXCEPT !.failures_phase = TRUE]
                ELSE failures_line(summary_line(l, line), line)
         IN  pytest_loop(after, Tail(lines))

\* log_parsers.py:11-119
parse_log_pytest_whole(log) ==
    LET l == extend(pytest_loop(PytestLocals, log))
    IN  [i \in DOMAIN l.test_results |->
            LET test == l.test_results[i]
            IN  IF test.status = "FAILED" /\ <<"", test.method>> \in DOMAIN l.failure_outputs
                THEN [test EXCEPT !.failure_output = l.failure_outputs[<<"", test.method>>]]
                ELSE test]

StitchCall ==
    /\ stitch.pc = "idle"
    /\ \E outcome \in Outcomes :
         \E blocks \in SUBSET {c \in Cases : outcome[c] \in {"FAILED", "ERROR"}} :
            LET log == pytest_log(outcome, blocks)
            IN  stitch' = [pc |-> "returned", log |-> log, blocks |-> blocks,
                           out |-> parse_log_pytest_whole(log)]
    /\ UNCHANGED <<baseVars, grade, file, req, bulk, tree, ign, blk, plog, dj, arch, steps, sub, hdl, pa, ctx, wr, zq>>

\* the caller has its answer; the next call starts afresh
StitchReturn ==
    /\ stitch.pc = "returned"
    /\ stitch' = [pc |-> "idle", log |-> <<>>, blocks |-> {}, out |-> <<>>]
    /\ UNCHANGED <<baseVars, grade, file, req, bulk, tree, ign, blk, plog, dj, arch, steps, sub, hdl, pa, ctx, wr, zq>>

StitchNext == StitchCall \/ StitchReturn

SpecStitch == Init /\ [][StitchNext]_vars

\* C26 (SpecStitch): each result with status failed or error whose traceback
\* block appears in the log carries that block as its failure text, and no
\* result carries the block of another test.
C26_BlocksAreStitched ==
    \A i \in DOMAIN stitch.out :
        LET test == stitch.out[i]
        IN  /\ (test.status \in {"FAILED", "ERROR"} /\ test.name \in stitch.blocks)
                  => test.failure_output = <<test.name>>
            /\ \A j \in DOMAIN test.failure_output : test.failure_output[j] = test.name

----------------------------------------------------------------------------
(* SpecDjango: parse_log_django on a whole log: the outcome lines, then the   *)
(* FAIL and ERROR blocks.                                                     *)

\* the tests of a log, each a module, a class and a method: the first two
\* differ in the module only, the first and the third in the class only
DjangoTests == {<<"m1", "A", "test_x">>, <<"m2", "A", "test_x">>, <<"m1", "B", "test_x">>}

DjangoOrder == <<<<"m1", "A", "test_x">>, <<"m2", "A", "test_x">>, <<"m1", "B", "test_x">>>>

NoTest == <<"None", "None", "None">>

\* what the runner prints after "test_x (m1.A) ... ", or nothing of the test
DjangoOutcomes == [DjangoTests -> {"none", "ok", "FAIL", "ERROR", "skipped"}]

DjangoLine(kind, status, test) == [kind |-> kind, status |-> status, test |-> test]

\* the block of a test that failed or ended in error:
\*   ======...   /   FAIL: test_x (m1.A)   /   ------...   /
\*   File "/testbed/tests/m1.py", line 3, in test_x   /   AssertionError
DjangoBlock(status, test) ==
    <<DjangoLine("rule=", "None", NoTest), DjangoLine("head", status, test),
      DjangoLine("rule-", "None", NoTest), DjangoLine("file", "None", test),
      DjangoLine("text", "None", test)>>

\* the log of a run: one outcome line per test, the blocks, "Ran n tests"
django_log(outcome) ==
    LET outcomes == [t \in DjangoTests |->
            IF outcome[t] = "none" THEN <<>>
            ELSE <<DjangoLine("outcome", outcome[t], t)>>]
        blocks == [t \in DjangoTests |->
            IF outcome[t] \in {"FAIL", "ERROR"} THEN DjangoBlock(outcome[t], t) ELSE <<>>]
    IN  Concat(outcomes, DjangoOrder) \o Concat(blocks, DjangoOrder)
        \o <<DjangoLine("rule-", "None", NoTest), DjangoLine("ran", "None", NoTest)>>

\* log_parsers.py:150, 229: f"{class_name}.{method_name}"
current_method_of(test) == <<test[2], test[3]>>

NoMethod == <<"None", "None">>

\* log_parsers.py:158-185: the status of an outcome line
django_status(line) ==
    IF line.status = "ok" THEN "PASSED"
    ELSE IF line.status = "FAIL" THEN "FAILED"
    ELSE IF line.status = "ERROR" THEN "ERROR"
    ELSE "SKIPPED"

\* test_status_map[current_method] = TestResult(...)
Store(test_status_map, key, result) ==
    [k \in DOMAIN test_status_map \cup {key} |->
        IF k = key THEN result ELSE test_status_map[k]]

\* log_parsers.py:136-186, the first loop: an outcome line matches test_pattern
\* and carries its outcome; no other line of the log matches
RECURSIVE django_outcomes(_, _)
django_outcomes(test_status_map, lines) ==
    IF lines = <<>> THEN test_status_map
    ELSE LET line == Head(lines)
             current_method == current_method_of(line.test)
             after ==
                IF line.kind = "outcome"
                THEN Store(test_status_map, current_method,
                        [status |-> django_status(line), file_path |-> line.test[1],
                         name |-> line.test, method |-> current_method,
                         failure_output |-> <<>>])
                ELSE test_status_map
         IN  django_outcomes(after, Tail(lines))

\* log_parsers.py:192-203, 207-218, 241-250: the output gathered so far is the
\* failure output of current_method; the file of its traceback replaces a file
\* path that it does not end with
attach(l) ==
    IF l.current_method # NoMethod /\ l.current_output # <<>>
       /\ l.current_method \in DOMAIN l.test_status_map
    THEN LET test == l.test_status_map[l.current_method]
             file_path ==
                IF l.current_traceback # <<>>
                   /\ l.current_traceback[1].test[1] # test.file_path
                THEN l.current_traceback[1].test[1]
                ELSE test.file_path
         IN  [l EXCEPT !.test_status_map = Store(@, l.current_method,
                [test EXCEPT !.failure_output = l.current_output,
                             !.file_path = file_path])]
    ELSE l

\* log_parsers.py:188-238, the second loop
RECURSIVE django_blocks(_, _)
django_blocks(l, lines) ==
    IF lines = <<>> THEN l
    ELSE LET line == Head(lines)
             after ==
                IF line.kind = "rule="
                THEN [attach(l) EXCEPT !.current_method = NoMethod,
                                       !.current_output = <<line>>,
                                       !.current_traceback = <<>>]
                ELSE IF line.kind = "rule-" /\ l.current_traceback # <<>>
                THEN [attach(l) EXCEPT !.current_method = NoMethod,
                                       !.current_output = <<>>,
                                       !.current_traceback = <<>>]
                ELSE IF line.kind = "head"
                THEN [l EXCEPT !.current_method = current_method_of(line.test),
                               !.current_output = Append(@, line)]
                ELSE IF l.current_method # NoMethod
                THEN [l EXCEPT !.current_output = Append(@, line),
                               !.current_traceback =
                                    IF line.kind = "file" THEN Append(@, line) ELSE @]
                ELSE l
         IN  django_blocks(after, Tail(lines))

\* log_parsers.py:262-266 on the failure output of a test
extract_file_path(failure_output) ==
    LET files == {i \in DOMAIN failure_output : failure_output[i].kind = "file"}
    IN  IF files = {} THEN "None"
        ELSE failure_output[CHOOSE i \in files : \A j \in files : i <= j].test[1]

\* log_parsers.py:123-260
parse_log_django(log) ==
    LET l == attach(django_blocks(
                [test_status_map |-> django_outcomes(<<>>, log),
                 current_method |-> NoMethod, current_output |-> <<>>,
                 current_traceback |-> <<>>], log))
    IN  [k \in DOMAIN l.test_status_map |->
            LET test == l.test_status_map[k]
                extracted_path == extract_file_path(test.failure_output)
            IN  IF extracted_path # "None" /\ extracted_path # test.file_path
                THEN [test EXCEPT !.file_path = extracted_path]
                ELSE test]

DjangoCall ==
    /\ dj.pc = "idle"
    /\ \E outcome \in DjangoOutcomes :
         dj' = [pc |-> "returned", outcome |-> outcome, log |-> django_log(outcome),
                out |-> parse_log_django(django_log(outcome))]
    /\ UNCHANGED <<baseVars, grade, file, req, bulk, tree, ign, blk, plog, stitch, arch, steps, sub, hdl, pa, ctx, wr, zq>>

\* the caller has its answer; the next call starts afresh
DjangoReturn ==
    /\ dj.pc = "returned"
    /\ dj' = [pc |-> "idle", outcome |-> <<>>, log |-> <<>>, out |-> <<>>]
    /\ UNCHANGED <<baseVars, grade, file, req, bulk, tree, ign, blk, plog, stitch, arch, steps, sub, hdl, pa, ctx, wr, zq>>

DjangoNext == DjangoCall \/ DjangoReturn

SpecDjango == Init /\ [][DjangoNext]_vars

\* the result of a test in what parse_log_django returned
ResultsOf(test) == {k \in DOMAIN dj.out : dj.out[k].name = test}

\* C27 (SpecDjango): parse_log_django returns one result per outcome line of
\* the log, and the results with status failed are exactly the tests whose
\* outcome is FAIL, each with its file path and non-empty failure text.
C27_OneResultPerOutcomeLine ==
    dj.pc = "returned" =>
        /\ Cardinality(DOMAIN dj.out)
              = Cardinality({t \in DjangoTests : dj.outcome[t] # "none"})
        /\ \A t \in DjangoTests : dj.outcome[t] = "FAIL" =>
              \E k \in ResultsOf(t) :
                  /\ dj.out[k].status = "FAILED"
                  /\ dj.out[k].file_path = t[1]
                  /\ dj.out[k].failure_output # <<>>
        /\ \A k \in DOMAIN dj.out :
              dj.out[k].status = "FAILED" => dj.outcome[dj.out[k].name] = "FAIL"

----------------------------------------------------------------------------
(* SpecArchive: Testbed.run_evaluation of the in-sandbox server               *)
(* (server/testbed.py): the set-up, the run inside the try block, and the     *)
(* archival of the log directory in the finally clause.                       *)

NumRunIds == 3

RunIds == 1..NumRunIds

\* what reading the instance file and fetching the prediction come to
\* (testbed.py:27-45): no instance file; fetch_prediction raises; it returns a
\* Prediction, which has no item access; it returns None
SetUps == {"FileNotFoundError", "fetch raised", "TypeError", "gold"}

\* what the try block comes to (testbed.py:48-75): run_instance returns a
\* report with or without the instance in it, or something raises an
\* EvaluationError, another Exception, or a BaseException that is no Exception
\* (SystemExit, KeyboardInterrupt)
TryExits == {"resolved", "failed", "invalid", "not in report",
             "EvaluationError", "Exception", "BaseException"}

\* testbed.py:63-75: the value of status when the finally clause begins
status_after(exit) ==
    CASE exit \in {"resolved", "failed", "invalid"} -> exit
      [] exit = "not in report" -> "error"
      [] exit = "EvaluationError" -> "apply_patch_fail"
      [] exit = "Exception" -> "error"
      [] exit = "BaseException" -> "unbound"

\* testbed.py:69-75: what the try statement does once its finally clause is
\* through: return the report, fall off the end, or let the exception go on
pending_after(exit) ==
    CASE exit \in {"resolved", "failed", "invalid", "not in report"} -> "return report"
      [] exit \in {"EvaluationError", "Exception"} -> "return None"
      [] exit = "BaseException" -> "raise"

\* testbed.py:23-46
ArchStart ==
    /\ arch.pc = "idle"
    /\ \E run_id \in RunIds, instance_id \in Instances, setup \in SetUps,
          log_dir_exists \in BOOLEAN :
         arch' = IF setup = "gold"
                 THEN Arch("try", run_id, instance_id, log_dir_exists)
                 ELSE [Arch("ended", run_id, instance_id, FALSE) EXCEPT !.out = setup]
    /\ UNCHANGED <<baseVars, grade, file, req, bulk, tree, ign, blk, plog, stitch, dj, steps, sub, hdl, pa, ctx, wr, zq>>

\* testbed.py:48-75
ArchTry ==
    /\ arch.pc = "try"
    /\ \E exit \in TryExits :
         arch' = [arch EXCEPT !.pc = "finally", !.status = status_after(exit),
                              !.pending = pending_after(exit)]
    /\ UNCHANGED <<baseVars, grade, file, req, bulk, tree, ign, blk, plog, stitch, dj, steps, sub, hdl, pa, ctx, wr, zq>>

\* testbed.py:76-82: the log line reads status; then store_dir, whose
\* exceptions are logged
ArchFinally ==
    /\ arch.pc = "finally"
    /\ IF arch.status = "unbound"
       THEN arch' = [arch EXCEPT !.pc = "ended", !.out = "UnboundLocalError"]
       ELSE \E stored \in BOOLEAN :
              arch' = [arch EXCEPT !.pc = "ended",
                                   !.archive = IF stored THEN "stored" ELSE "logged",
                                   !.out = arch.pending]
    /\ UNCHANGED <<baseVars, grade, file, req, bulk, tree, ign, blk, plog, stitch, dj, steps, sub, hdl, pa, ctx, wr, zq>>

\* the caller has its answer; the next call starts afresh
ArchReturn ==
    /\ arch.pc = "ended"
    /\ arch' = Arch("idle", 0, "none", FALSE)
    /\ UNCHANGED <<baseVars, grade, file, req, bulk, tree, ign, blk, plog, stitch, dj, steps, sub, hdl, pa, ctx, wr, zq>>

ArchiveNext == ArchStart \/ ArchTry \/ ArchFinally \/ ArchReturn

SpecArchive == Init /\ [][ArchiveNext]_vars

\* the call ended after it had entered its try block
RunEnded == arch.pc = "ended" /\ arch.out \notin SetUps

\* C28 (SpecArchive): whenever run_evaluation ends, normally or by an exception
\* raised during the run, it has attempted to archive the log directory, and
\* no failure of the archival reaches the caller.
C28_ArchivalIsAttempted ==
    RunEnded => arch.archive \in {"stored", "logged"}

----------------------------------------------------------------------------
(* SpecSteps: the steps of run_evaluation of the testbed client               *)
(* (client/client.py) and of the SDK client (testbeds/sdk/client.py), in the  *)
(* order in which a call takes them.                                          *)

StepImpls == {"client.run_evaluation", "sdk.run_evaluation"}

\* client/client.py:427-437, testbeds/sdk/client.py:281-299: the client begins
\* with self.reset(), the SDK client with wait_until_ready and apply_patch
StepsStart(impl) ==
    /\ steps.pc = "idle"
    /\ \E patch \in {"gold", "given"} :
         steps' = Steps(impl, patch, IF impl = "client.run_evaluation" THEN "reset"
                                     ELSE "apply_patch")
    /\ UNCHANGED <<baseVars, grade, file, req, bulk, tree, ign, blk, plog, stitch, dj, arch, sub, hdl, pa, ctx, wr, zq>>

\* client/client.py:439 and 362-363: execute(reset_commands), which returns
\* when the execution is no longer running
StepReset ==
    /\ steps.pc = "reset"
    /\ steps' = [steps EXCEPT !.trace = Append(@, "reset"), !.pc = "apply_patch"]
    /\ UNCHANGED <<baseVars, grade, file, req, bulk, tree, ign, blk, plog, stitch, dj, arch, sub, hdl, pa, ctx, wr, zq>>

\* client/client.py:443-445 and 303-316: the patch is saved and its commands
\* are posted to /exec, which answers with the status of the execution;
\* testbeds/sdk/client.py:301 and 215: POST apply-patch answers when the patch
\* commands have ended
StepSubmitPatch ==
    /\ steps.pc = "apply_patch"
    /\ \E s \in IF steps.impl = "client.run_evaluation" THEN {"running"} \cup Terminal
                ELSE Terminal :
         steps' = [steps EXCEPT !.trace = Append(@, "patch"), !.patch_exec = s,
                                !.response = "patch", !.pc = "patch_poll"]
    /\ UNCHANGED <<baseVars, grade, file, req, bulk, tree, ign, blk, plog, stitch, dj, arch, sub, hdl, pa, ctx, wr, zq>>

\* client/client.py:324-326, the loop of execute; then 447-452 and
\* testbeds/sdk/client.py:217-223: the marker of a patch that did not apply
\* ends the run, with an error result or with RuntimeError
StepPatchPoll ==
    /\ steps.pc = "patch_poll"
    /\ IF steps.patch_exec = "running"
       THEN \E s \in {"running"} \cup Terminal : steps' = [steps EXCEPT !.patch_exec = s]
       ELSE \E failed \in BOOLEAN :
              steps' = IF failed
                       THEN [steps EXCEPT !.pc = "done",
                               !.out = IF steps.impl = "client.run_evaluation"
                                       THEN "error result" ELSE "RuntimeError"]
                       ELSE [steps EXCEPT !.pc = "diff_before"]
    /\ UNCHANGED <<baseVars, grade, file, req, bulk, tree, ign, blk, plog, stitch, dj, arch, sub, hdl, pa, ctx, wr, zq>>

\* client/client.py:454-458, testbeds/sdk/client.py:303-309: the diff goes to
\* git_diff_output_before; response is left as it is
StepDiffBefore ==
    /\ steps.pc = "diff_before"
    /\ \E d \in {"None", "diff"} :
         steps' = [steps EXCEPT !.git_diff_output_before = d, !.pc = "run_tests"]
    /\ UNCHANGED <<baseVars, grade, file, req, bulk, tree, ign, blk, plog, stitch, dj, arch, sub, hdl, pa, ctx, wr, zq>>

\* client/client.py:460, testbeds/sdk/client.py:311-313: the test execution is
\* submitted and response is its status
StepSubmitTests ==
    /\ steps.pc = "run_tests"
    /\ \E s \in {"running"} \cup Terminal :
         steps' = [steps EXCEPT !.trace = Append(@, "tests"), !.tests_exec = s,
                                !.patch_at_submit = steps.patch_exec,
                                !.response = "tests", !.pc = "tests_poll"]
    /\ UNCHANGED <<baseVars, grade, file, req, bulk, tree, ign, blk, plog, stitch, dj, arch, sub, hdl, pa, ctx, wr, zq>>

\* client/client.py:462-464, testbeds/sdk/client.py:314-316
StepTestsPoll ==
    /\ steps.pc = "tests_poll"
    /\ IF steps.tests_exec = "running"
       THEN \E s \in {"running"} \cup Terminal : steps' = [steps EXCEPT !.tests_exec = s]
       ELSE steps' = [steps EXCEPT !.pc = "diff_after"]
    /\ UNCHANGED <<baseVars, grade, file, req, bulk, tree, ign, blk, plog, stitch, dj, arch, sub, hdl, pa, ctx, wr, zq>>

\* client/client.py:466-475, testbeds/sdk/client.py:325-334: the diff goes to
\* git_diff_output_after; response is left as it is
StepDiffAfter ==
    /\ steps.pc = "diff_after"
    /\ steps' = [steps EXCEPT !.pc = "grade"]
    /\ UNCHANGED <<baseVars, grade, file, req, bulk, tree, ign, blk, plog, stitch, dj, arch, sub, hdl, pa, ctx, wr, zq>>

\* client/client.py:477-485, testbeds/sdk/client.py:336-344:
\* get_pred_report(response.output)
StepGrade ==
    /\ steps.pc = "grade"
    /\ \E resolved \in BOOLEAN :
         steps' = [steps EXCEPT !.trace = Append(@, "grading"), !.graded = steps.response,
                                !.resolved = resolved, !.pc = "done", !.out = "result"]
    /\ UNCHANGED <<baseVars, grade, file, req, bulk, tree, ign, blk, plog, stitch, dj, arch, sub, hdl, pa, ctx, wr, zq>>

\* the caller has its answer; run_evaluation may be called again
StepsDone ==
    /\ steps.pc = "done"
    /\ steps' = Steps("none", "none", "idle")
    /\ UNCHANGED <<baseVars, grade, file, req, bulk, tree, ign, blk, plog, stitch, dj, arch, sub, hdl, pa, ctx, wr, zq>>

StepsNext ==
    \/ \E impl \in StepImpls : StepsStart(impl)
    \/ StepReset
    \/ StepSubmitPatch
    \/ StepPatchPoll
    \/ StepDiffBefore
    \/ StepSubmitTests
    \/ StepTestsPoll
    \/ StepDiffAfter
    \/ StepGrade
    \/ StepsDone

SpecSteps == Init /\ [][StepsNext]_vars

\* the state machine of a run: Reset, then the patch, then the tests, then the
\* grading
RunOrder == <<"reset", "patch", "tests", "grading">>

\* C29 (SpecSteps): the steps of a run occur in the order reset, patch
\* application, test execution, grading, each at most once; the tests are not
\* submitted before the patch execution is terminal; the grading uses the
\* output of the test execution.
C29_StepsInOrder ==
    /\ steps.trace = SubSeq(RunOrder, 1, Len(steps.trace))
    /\ steps.patch_at_submit \in {"none"} \cup Terminal
    /\ steps.graded \in {"none", "tests"}

----------------------------------------------------------------------------
(* SpecStatus: the orchestrator with the status it reads of a sandbox, the    *)
(* answer of the health probe included.                                       *)

\* what GET /health of a sandbox comes to (testbed/server.py:30-51 and the
\* connection): 200 with status OK when the server is up, otherwise a 500 or a
\* 200 with another status, or no connection
HealthAnswers(c, job_name) ==
    IF c.health[job_name] THEN {"200 OK"}
    ELSE {"500 ERROR", "200 ERROR", "ConnectionError"}

\* manager.py:367-396 with the probe ignored: Running as soon as the pod and
\* the service are
read_testbed_status_without_probe(c, job_name, answer) ==
    IF PodStatus(c, job_name) = "Running" /\ get_service_status(c, job_name) = "Running"
    THEN "Running"
    ELSE IF PodStatus(c, job_name) = "Pending" \/ get_service_status(c, job_name) = "Pending"
         THEN "Pending"
         ELSE "Unknown"

\* manager.py:367-396, answer being what requests.get(f"{testbed_url}/health")
\* comes to
read_testbed_status_probed(c, job_name, answer) ==
    IF PodStatus(c, job_name) = "Running" /\ get_service_status(c, job_name) = "Running"
    THEN IF answer = "ConnectionError" THEN "Pending"
         ELSE IF answer = "200 OK" THEN "Running"
         ELSE "Pending"
    ELSE IF PodStatus(c, job_name) = "Pending" \/ get_service_status(c, job_name) = "Pending"
         THEN "Pending"
         ELSE "Unknown"

\* manager.py:562-564 behind api/main.py:225-237
ReadTestbedStatus(testbed_id, user_id) ==
    \E answer \in HealthAnswers(Cluster, testbed_id) :
        Commit("read_status", user_id, testbed_id,
               Result(Cluster, read_testbed_status_probed(Cluster, testbed_id, answer), NoId))

StatusCall == \E id \in TestbedIds, u \in Users : ReadTestbedStatus(id, u)

\* sandboxes are created and deleted, the control plane brings them up, and
\* their status is read
NextStatus ==
    \/ \E i \in Instances, u \in Users : CreateTestbed(i, u)
    \/ \E id \in TestbedIds, u \in Users : DeleteTestbed(id, u)
    \/ StatusCall
    \/ ControlPlane

SpecStatus == Init /\ [][NextStatus]_vars

\* the pod runs and the service has its address
InfrastructureReady(id) == pods[id] = "Running" /\ services[id] = "Running"

\* the step is a status call on id: the cluster is left as it is and the
\* caller has the status
IsStatusCall(id) ==
    /\ ret'.op = "read_status" /\ ret'.target = id
    /\ UNCHANGED <<jobs, services, pods, health, sbxWriter>>

\* C30 (SpecStatus): the orchestrator reports Running for a sandbox only when
\* its pod runs, its service has an address and the health probe answers 200
\* with status OK; with the infrastructure ready and the probe failing or
\* unreachable it reports Pending.
C30_RunningNeedsHealthyProbe ==
    [][\A id \in TestbedIds :
          IsStatusCall(id) =>
            /\ ret'.out = "Running" => (InfrastructureReady(id) /\ health[id])
            /\ (InfrastructureReady(id) /\ ~health[id]) => ret'.out = "Pending"]_vars

\* C30 witness: a sandbox whose pod runs and whose service has its address,
\* with the server not answering, was reported Pending.
C30_Witness ==
    /\ ret.op = "read_status" /\ ret.out = "Pending"
    /\ InfrastructureReady(ret.target) /\ ~health[ret.target]

----------------------------------------------------------------------------
(* SpecClient: create_client on a sandbox of another user.                  *)

\* testbed_id names a sandbox that exists and that user_id does not own
ForeignSandbox(testbed_id, user_id) == jobs[testbed_id] \notin {NoJob, user_id}

\* the job, the service, the pod, the server and the files of testbed_id are
\* left as they are
SandboxUntouched(testbed_id) ==
    /\ jobs'[testbed_id] = jobs[testbed_id]
    /\ services'[testbed_id] = services[testbed_id]
    /\ pods'[testbed_id] = pods[testbed_id]
    /\ health'[testbed_id] = health[testbed_id]
    /\ sbxWriter'[testbed_id] = sbxWriter[testbed_id]

\* the step is create_client(id, i) called by u
IsCreateClient(id, i, u) ==
    /\ ret'.op = "create_client" /\ ret'.target = id /\ ret'.caller = u
    /\ CreateClient(id, i, u)

\* sandboxes are created and deleted, the control plane brings them up, and
\* clients are asked for
NextClient ==
    \/ \E i \in Instances, u \in Users : CreateTestbed(i, u)
    \/ \E id \in TestbedIds, u \in Users : DeleteTestbed(id, u)
    \/ \E id \in TestbedIds, i \in Instances \cup {NoInstance}, u \in Users :
            CreateClient(id, i, u)
    \/ ControlPlane

SpecClient == Init /\ [][NextClient]_vars

----------------------------------------------------------------------------
(* SpecSubmit: execute, run_tests and run_evaluation of the protocol client *)
(* (sdk), each of which POSTs its Execution through _request, and the       *)
(* number of those POSTs that reach the sandbox.                            *)

\* the calls that submit an Execution: sdk/client.py:348-357 (POST exec),
\* 229-245 (POST run-tests), 281-346 (POST run-evaluation)
SubmitCalls == {"execute", "run_tests", "run_evaluation"}

\* max_retries of _request, which none of the three calls passes
DefaultMaxRetries == 3

\* whether the POST of an attempt was handed to the sandbox, by what the
\* attempt came to.  A 200 is the answer to a POST that was run.  A 5xx is the
\* gateway's or the handler's: api/main.py:239-249 answers 500 when the proxying
\* raises, before or after the sandbox ran the commands, and testbed/server.py:
\* 59-65 answers 500 when the execution raised.  A Timeout (requests' timeout=30,
\* sdk/client.py:132-134) ends the wait for the connection or for the answer;
\* the handler of a POST that was sent goes on.  A ConnectionError is a
\* connection refused, or one reset after the request was sent.  A 4xx is the
\* answer of validate_api_key or of the validation, before any proxying.
Delivered(outcome) ==
    CASE outcome = "ok" -> {TRUE}
      [] outcome = "HTTPError 4xx" -> {FALSE}
      [] OTHER -> {FALSE, TRUE}

\* testbed/server.py:53-61 behind api/main.py:239-249: every POST that arrives
\* is run; no request carries an id by which a repetition could be told
sandbox_receive(received, delivered) ==
    IF delivered THEN received + 1 ELSE received

\* sdk/client.py:348-352, 235-236: the call enters _request with its defaults
SubmitStart(call) ==
    /\ req.pc = "idle" /\ sub.call = "none"
    /\ \E operation_timeout \in 1..MaxOperationTimeout :
         req' = Req("loop", DefaultMaxRetries, operation_timeout)
    /\ sub' = [call |-> call, received |-> 0]
    /\ UNCHANGED <<baseVars, grade, file, bulk, tree, ign, blk, plog, stitch, dj, arch, steps, hdl, pa, ctx, wr, zq>>

\* sdk/client.py:128-149: one POST, which the sandbox receives or not, and the
\* handling of its failure
SubmitAttempt ==
    /\ sub.call # "none"
    /\ req.pc = "loop" /\ req.retries < req.max_retries
    /\ ~(req.elapsed > req.operation_timeout)
    /\ \E outcome \in AttemptOutcomes, dt \in 0..MaxAttemptTime :
         /\ req' = request_attempt(req, outcome, dt)
         /\ \E delivered \in Delivered(outcome) :
              sub' = [sub EXCEPT !.received = sandbox_receive(@, delivered)]
    /\ UNCHANGED <<baseVars, grade, file, bulk, tree, ign, blk, plog, stitch, dj, arch, steps, hdl, pa, ctx, wr, zq>>

\* the call has returned or raised; the next call starts afresh
SubmitDone ==
    /\ sub.call # "none" /\ req.pc \in {"returned", "raised"}
    /\ req' = Req("idle", 0, 0)
    /\ sub' = [call |-> "none", received |-> 0]
    /\ UNCHANGED <<baseVars, grade, file, bulk, tree, ign, blk, plog, stitch, dj, arch, steps, hdl, pa, ctx, wr, zq>>

SubmitNext ==
    \/ \E call \in SubmitCalls : SubmitStart(call)
    \/ SubmitAttempt
    \/ RequestTimesOut
    \/ RequestSleep
    \/ SubmitDone

SpecSubmit == Init /\ [][SubmitNext]_vars

\* C32 (SpecSubmit): for each call of execute, run_tests or run_evaluation on
\* the protocol client the sandbox receives at most one submission of that
\* Execution, also when the request is retried after a transient error: a
\* retry never starts the same commands a second time.
C32_AtMostOneSubmission == sub.call \in SubmitCalls => sub.received <= 1

----------------------------------------------------------------------------
(* SpecHandler: the run-tests and run-evaluation handlers of the API.  Both *)
(* make a client, wait for the sandbox and run the pipeline of the client;  *)
(* the wait is client.wait_until_ready of SpecReady.                        *)

Routes == {"run-tests", "run-evaluation"}

\* most execution and file calls of one pipeline
MaxCalls == 2

\* api/main.py:176-177, 192-193: create_client, then wait_until_ready(timeout=600)
HandlerStart(route) ==
    /\ hdl.pc = "idle" /\ wait.pc = "idle"
    /\ \E in_cluster \in BOOLEAN : hdl' = Hdl(route, "wait", in_cluster)
    /\ wait' = Wait("client.wait_until_ready", "loop", 0, 0, FALSE, FALSE, "none")
    /\ UNCHANGED <<orchVars, concVars, execVars, poll, run, grade, file, req, bulk>>
    /\ UNCHANGED <<tree, ign, blk, plog, stitch, dj, arch, steps, sub, pa, ctx, wr, zq>>

\* api/main.py:177, 193: the wait has returned, the testbed or None, and the
\* handler, which does not look at what it returned, goes on to the pipeline
\* (lines 179 and 196)
HandlerAfterWait ==
    /\ hdl.pc = "wait" /\ wait.pc = "done"
    /\ hdl' = [hdl EXCEPT !.pc = "pipeline", !.ready = wait.out]
    /\ wait' = Wait("none", "idle", 0, 0, FALSE, FALSE, "none")
    /\ UNCHANGED <<orchVars, concVars, execVars, poll, run, grade, file, req, bulk>>
    /\ UNCHANGED <<tree, ign, blk, plog, stitch, dj, arch, steps, sub, pa, ctx, wr, zq>>

\* client/client.py:182-193, base_url, read by every call of the pipeline
\* (303-316): the name of the service in the cluster, or the hostname once it
\* is known; else another wait_until_ready(timeout=self.startup_timeout)
HandlerBaseUrl ==
    /\ hdl.pc = "pipeline" /\ wait.pc = "idle"
    /\ IF hdl.in_cluster \/ hdl.hostname
       THEN /\ hdl' = [hdl EXCEPT !.pc = "call"]
            /\ UNCHANGED wait
       ELSE /\ hdl' = [hdl EXCEPT !.pc = "base_url"]
            /\ wait' = Wait("client.wait_until_ready", "loop", 0, 0, FALSE, FALSE, "none")
    /\ UNCHANGED <<orchVars, concVars, execVars, poll, run, grade, file, req, bulk>>
    /\ UNCHANGED <<tree, ign, blk, plog, stitch, dj, arch, steps, sub, pa, ctx, wr, zq>>

\* client/client.py:190-193: the wait of base_url has returned; of None the
\* attribute external_ip is read, which raises AttributeError.  run-tests lets
\* it pass (api/main.py:179), run-evaluation answers 500 (198-200): a 500 both
HandlerHostname ==
    /\ hdl.pc = "base_url" /\ wait.pc = "done"
    /\ hdl' = IF wait.out = "None"
              THEN [hdl EXCEPT !.pc = "returned", !.out = "500"]
              ELSE [hdl EXCEPT !.pc = "call", !.hostname = TRUE]
    /\ wait' = Wait("none", "idle", 0, 0, FALSE, FALSE, "none")
    /\ UNCHANGED <<orchVars, concVars, execVars, poll, run, grade, file, req, bulk>>
    /\ UNCHANGED <<tree, ign, blk, plog, stitch, dj, arch, steps, sub, pa, ctx, wr, zq>>

\* client/client.py:303-316 and the file calls: one request of the pipeline
\* is sent to the sandbox; it is answered, or it fails and the pipeline raises
HandlerCall ==
    /\ hdl.pc = "call"
    /\ \E answer \in {"200", "ConnectionError"} :
         hdl' = IF answer = "ConnectionError"
                THEN [hdl EXCEPT !.calls = @ + 1, !.pc = "returned", !.out = "500"]
                ELSE IF hdl.calls + 1 = MaxCalls
                THEN [hdl EXCEPT !.calls = @ + 1, !.pc = "returned", !.out = "200"]
                ELSE [hdl EXCEPT !.calls = @ + 1, !.pc = "pipeline"]
    /\ UNCHANGED <<baseVars, grade, file, req, bulk, tree, ign, blk, plog, stitch, dj, arch, steps, sub, pa, ctx, wr, zq>>

\* the handler has answered; the next request starts afresh
HandlerDone ==
    /\ hdl.pc = "returned"
    /\ hdl' = Hdl("none", "idle", FALSE)
    /\ UNCHANGED <<baseVars, grade, file, req, bulk, tree, ign, blk, plog, stitch, dj, arch, steps, sub, pa, ctx, wr, zq>>

HandlerNext ==
    \/ \E route \in Routes : HandlerStart(route)
    \/ ClientWaitStep
    \/ HandlerAfterWait
    \/ HandlerBaseUrl
    \/ HandlerHostname
    \/ HandlerCall
    \/ HandlerDone

SpecHandler == Init /\ [][HandlerNext]_vars

----------------------------------------------------------------------------
(* SpecPatch: the patch-apply commands, as the script of                     *)
(* TestSpec.patch_commands and as the exec_run calls of run_instance, one    *)
(* step per command.  The working tree is the number of times it holds the   *)
(* patch.                                                                    *)

PatchImpls == {"patch_commands", "run_instance"}

\* what a tool does with a patch the tree already holds: it rejects it, it
\* applies it once more (hunks whose context still matches), or, patch --batch
\* only, it takes the patch for a reversed one and un-applies it
PatchInputs ==
    {Patch(g, f, ga, pg) : g \in BOOLEAN, f \in BOOLEAN,
                           ga \in {"rejected", "applied"},
                           pg \in {"rejected", "applied", "reversed"}}

\* a command's effect: the tree it leaves and its exit code
Ran(applied, exit_code) == [applied |-> applied, exit_code |-> exit_code]

\* `git apply -v <patch>` (test_spec.py:124, 139; run_evaluation.py:83): all of
\* the patch or nothing
git_apply(applied, patch) ==
    IF applied = 0
    THEN IF patch.git_ok THEN Ran(1, 0) ELSE Ran(0, 1)
    ELSE IF patch.git_again = "applied" THEN Ran(applied + 1, 0) ELSE Ran(applied, 1)

\* `patch --batch --fuzz=5 -p1 -i <patch>` (test_spec.py:128, 131, 135;
\* run_evaluation.py:91): --batch assumes -R for a patch that looks reversed
patch_batch(applied, patch) ==
    IF applied = 0
    THEN IF patch.fuzzy_ok THEN Ran(1, 0) ELSE Ran(0, 1)
    ELSE CASE patch.patch_again = "applied" -> Ran(applied + 1, 0)
           [] patch.patch_again = "reversed" -> Ran(applied - 1, 0)
           [] OTHER -> Ran(applied, 1)

\* the command a position runs
run_command(pc, applied, patch) ==
    IF pc \in {"git_apply", "git_apply_again"}
    THEN git_apply(applied, patch)
    ELSE patch_batch(applied, patch)

\* client/client.py:365-369; run_evaluation.py:75-80: the patch is written to
\* /shared/patch.diff and the commands begin on the clean tree
PatchStart(impl) ==
    /\ pa.pc = "idle"
    /\ \E patch \in PatchInputs : pa' = Pa(impl, "git_apply", patch)
    /\ UNCHANGED <<baseVars, grade, file, req, bulk, tree, ign, blk, plog, stitch, dj, arch, steps, sub, hdl, ctx, wr, zq>>

\* test_spec.py:124-125, 137; run_evaluation.py:83-84
PatchGitApply ==
    /\ pa.pc = "git_apply"
    /\ LET r == run_command(pa.pc, pa.applied, pa.patch) IN
         pa' = [pa EXCEPT !.applied = r.applied, !.exit_code = r.exit_code,
                          !.pc = IF r.exit_code # 0 THEN "patch" ELSE "echo"]
    /\ UNCHANGED <<baseVars, grade, file, req, bulk, tree, ign, blk, plog, stitch, dj, arch, steps, sub, hdl, ctx, wr, zq>>

\* test_spec.py:126-129; run_evaluation.py:88-92
PatchFallback ==
    /\ pa.pc = "patch"
    /\ LET r == run_command(pa.pc, pa.applied, pa.patch) IN
         pa' = [pa EXCEPT !.applied = r.applied, !.exit_code = r.exit_code, !.pc = "echo"]
    /\ UNCHANGED <<baseVars, grade, file, req, bulk, tree, ign, blk, plog, stitch, dj, arch, steps, sub, hdl, ctx, wr, zq>>

\* the command that follows the marker in the script: git apply in the branch
\* taken when the first git apply exited with 0 (test_spec.py:137-139), patch in
\* the two others (131, 135)
command_after_marker(p) ==
    IF p.patch.git_ok THEN "git_apply_again" ELSE "patch_again"

\* test_spec.py:130, 134, 138: echo of the marker; run_evaluation.py:92-102:
\* the marker is logged and for APPLY_PATCH_FAIL EvaluationError is raised
PatchEcho ==
    /\ pa.pc = "echo"
    /\ LET marked == [pa EXCEPT !.marker = IF pa.exit_code = 0 THEN "APPLY_PATCH_PASS"
                                           ELSE "APPLY_PATCH_FAIL"]
       IN pa' = IF pa.impl = "run_instance"
                THEN [marked EXCEPT !.pc = "done"]
                ELSE [marked EXCEPT !.pc = command_after_marker(marked)]
    /\ UNCHANGED <<baseVars, grade, file, req, bulk, tree, ign, blk, plog, stitch, dj, arch, steps, sub, hdl, ctx, wr, zq>>

\* test_spec.py:131-132, 135, 139: the command after the marker, and `exit 1`
\* after the one that follows APPLY_PATCH_FAIL
PatchAgain ==
    /\ pa.pc \in {"git_apply_again", "patch_again"}
    /\ LET r == run_command(pa.pc, pa.applied, pa.patch) IN
         pa' = [pa EXCEPT !.applied = r.applied,
                          !.exit_code = IF pa.marker = "APPLY_PATCH_FAIL" THEN 1
                                        ELSE r.exit_code,
                          !.pc = "done"]
    /\ UNCHANGED <<baseVars, grade, file, req, bulk, tree, ign, blk, plog, stitch, dj, arch, steps, sub, hdl, ctx, wr, zq>>

\* the commands have ended; the next run starts on a clean tree
PatchDone ==
    /\ pa.pc = "done"
    /\ pa' = Pa("none", "idle", Patch(FALSE, FALSE, "rejected", "rejected"))
    /\ UNCHANGED <<baseVars, grade, file, req, bulk, tree, ign, blk, plog, stitch, dj, arch, steps, sub, hdl, ctx, wr, zq>>

PatchNext ==
    \/ \E impl \in PatchImpls : PatchStart(impl)
    \/ PatchGitApply
    \/ PatchFallback
    \/ PatchEcho
    \/ PatchAgain
    \/ PatchDone

SpecPatch == Init /\ [][PatchNext]_vars

\* C34 (SpecPatch): when the patch-apply commands end with the success marker,
\* the working tree holds the patch applied exactly once: no command of the
\* script applies the patch a second time or reverses it after the successful
\* application.
C34_AppliedExactlyOnce ==
    (pa.pc = "done" /\ pa.marker = "APPLY_PATCH_PASS") => pa.applied = 1

----------------------------------------------------------------------------
(* SpecContext: a with-statement over TestbedSDK (testbed/sdk.py and         *)
(* testbed/client/sdk.py) or over the protocol client (testbeds/sdk).  The   *)
(* waits inside __enter__ are those of SpecReady.  The cluster carries out   *)
(* every deletion it is asked for.                                           *)

CtxImpls == {"testbed.sdk", "testbed.client.sdk", "testbeds.sdk.client"}

\* the wait __enter__ calls
wait_of(impl) ==
    IF impl = "testbed.sdk" THEN "utils.wait_for_testbed_ready"
    ELSE "sdk.wait_until_ready"

\* testbed/sdk.py:23-37: create_testbed, self.testbed_id, then the wait;
\* testbed/client/sdk.py:23-30: create_testbed, whose summary is returned and
\* whose id is not kept; testbeds/sdk/client.py:75-76: the client is bound to a
\* sandbox that exists and waits for it
CtxEnter(impl) ==
    /\ ctx.pc = "idle" /\ wait.pc = "idle"
    /\ IF impl = "testbed.client.sdk"
       THEN /\ ctx' = Ctx(impl, "body", "exists", FALSE)
            /\ UNCHANGED wait
       ELSE /\ ctx' = Ctx(impl, "wait", "exists", impl = "testbed.sdk")
            /\ wait' = Wait(wait_of(impl), "loop", 0, 0, FALSE, FALSE, "none")
    /\ UNCHANGED <<orchVars, concVars, execVars, poll, run, grade, file, req, bulk>>
    /\ UNCHANGED <<tree, ign, blk, plog, stitch, dj, arch, steps, sub, hdl, pa, wr, zq>>

\* testbed/sdk.py:38-42, testbeds/sdk/client.py:76-77: the wait has returned and
\* __enter__ returns self, or the wait has raised and the exception leaves
\* __enter__: the with-statement calls __exit__ only when __enter__ returned
CtxAfterWait ==
    /\ ctx.pc = "wait" /\ wait.pc = "done"
    /\ ctx' = IF wait.out \in {"testbed", "None", "True"}
              THEN [ctx EXCEPT !.pc = "body"]
              ELSE [ctx EXCEPT !.pc = "left", !.raised = TRUE]
    /\ wait' = Wait("none", "idle", 0, 0, FALSE, FALSE, "none")
    /\ UNCHANGED <<orchVars, concVars, execVars, poll, run, grade, file, req, bulk>>
    /\ UNCHANGED <<tree, ign, blk, plog, stitch, dj, arch, steps, sub, hdl, pa, wr, zq>>

\* the body of the with-statement ends, normally or by an exception
CtxBody ==
    /\ ctx.pc = "body"
    /\ \E raised \in BOOLEAN : ctx' = [ctx EXCEPT !.pc = "exit", !.raised = raised]
    /\ UNCHANGED <<baseVars, grade, file, req, bulk, tree, ign, blk, plog, stitch, dj, arch, steps, sub, hdl, pa, wr, zq>>

\* testbed/sdk.py:44-49 and testbed/client/sdk.py:32-37: delete_testbed when
\* self.testbed_id is set; testbeds/sdk/client.py:79-80: destroy()
CtxExit ==
    /\ ctx.pc = "exit"
    /\ ctx' = IF ctx.impl = "testbeds.sdk.client" \/ ctx.testbed_id
              THEN [ctx EXCEPT !.pc = "left", !.sandbox = "deleted"]
              ELSE [ctx EXCEPT !.pc = "left"]
    /\ UNCHANGED <<baseVars, grade, file, req, bulk, tree, ign, blk, plog, stitch, dj, arch, steps, sub, hdl, pa, wr, zq>>

\* the with-statement is over; the next one starts afresh
CtxLeft ==
    /\ ctx.pc = "left"
    /\ ctx' = Ctx("none", "idle", "none", FALSE)
    /\ UNCHANGED <<baseVars, grade, file, req, bulk, tree, ign, blk, plog, stitch, dj, arch, steps, sub, hdl, pa, wr, zq>>

ContextNext ==
    \/ \E impl \in CtxImpls : CtxEnter(impl)
    \/ UtilsWaitStep
    \/ SdkWaitStep
    \/ CtxAfterWait
    \/ CtxBody
    \/ CtxExit
    \/ CtxLeft

SpecContext == Init /\ [][ContextNext]_vars

\* C35 (SpecContext): every sandbox created or bound by entering a TestbedSDK
\* or TestbedClient context is deleted by the time the with-statement is left,
\* on normal exit, on an exception in the body, and when the readiness wait
\* inside __enter__ fails after the creation.
C35_SandboxDeletedWhenLeft ==
    ctx.pc = "left" => ctx.sandbox = "deleted"

----------------------------------------------------------------------------
(* Reading a path that holds no file (SpecFile).                            *)

\* C36 (SpecFile): reading a file path that does not exist in the sandbox
\* yields a not-found error (404), never a success response that carries
\* content.
C36_MissingFileIsNotFound ==
    (file.op = "get" /\ file.fs[file.path] = NoFile) => file.out.kind = "error"

----------------------------------------------------------------------------
(* SpecWrite: KubernetesContainer.write_file.  What the file in the pod     *)
(* holds after the write command, and whether the command ran to its end,   *)
(* are inputs of the call.                                                  *)

\* kubernetes.py:322-361 without the comparison of lines 352-354
write_file_unverified(w) ==
    IF w.file_path \in SharedPaths
    THEN [w EXCEPT !.pc = "done"]
    ELSE [w EXCEPT !.pc = "done", !.read_back = w.chain = "completed"]

\* kubernetes.py:322-361.  Under shared_dir the bytes go to the local disk
\* (325-330).  Elsewhere one sh -c command writes the file and prints
\* `cat <file> | base64` (333-338); its output is decoded and compared with the
\* bytes given (351-354).  When a step of the && chain fails the output is the
\* tool's message, which does not decode to the bytes given.
write_file_verified(w) ==
    IF w.file_path \in SharedPaths
    THEN [w EXCEPT !.pc = "done"]
    ELSE LET resp == b64encode(w.stored)
             written_content == b64decode(resp)
         IN  [w EXCEPT !.pc = "done",
                       !.read_back = w.chain = "completed",
                       !.raised = w.chain = "broken" \/ written_content # w.content]

\* kubernetes.py:322-349: the write.  A write to the local disk that returns
\* has written the bytes given; the file in the pod holds what the command
\* left in it
WriteFile ==
    /\ wr.pc = "idle"
    /\ \E file_path \in Paths, content \in Payloads :
         IF file_path \in SharedPaths
         THEN wr' = Wr("written", file_path, content, content, "none")
         ELSE \E stored \in Payloads, chain \in {"completed", "broken"} :
                wr' = Wr("written", file_path, content, stored, chain)
    /\ UNCHANGED <<baseVars, grade, file, req, bulk, tree, ign, blk, plog, stitch, dj, arch, steps, sub, hdl, pa, ctx, zq>>

\* kubernetes.py:351-361: the verification and the return
WriteVerify ==
    /\ wr.pc = "written"
    /\ wr' = write_file_verified(wr)
    /\ UNCHANGED <<baseVars, grade, file, req, bulk, tree, ign, blk, plog, stitch, dj, arch, steps, sub, hdl, pa, ctx, zq>>

\* the caller has its answer; the next call starts afresh
WriteReturn ==
    /\ wr.pc = "done"
    /\ wr' = Wr("idle", "none", <<>>, <<>>, "none")
    /\ UNCHANGED <<baseVars, grade, file, req, bulk, tree, ign, blk, plog, stitch, dj, arch, steps, sub, hdl, pa, ctx, zq>>

WriteNext == WriteFile \/ WriteVerify \/ WriteReturn

SpecWrite == Init /\ [][WriteNext]_vars

\* the call reports success exactly when the file was read back and holds the
\* bytes given
VerifiedWrite ==
    /\ ~wr.raised => (wr.read_back /\ wr.stored = wr.content)
    /\ wr.raised => (~wr.read_back \/ wr.stored # wr.content)

\* C37 as stated: every write_file is followed by a read-back of the written
\* file and raises whenever the bytes read back differ from the bytes given.
C37_EveryWriteIsReadBack ==
    wr.pc = "done" => VerifiedWrite

\* C37 (SpecWrite): a write_file of a path outside the shared directory reads
\* the file back in the command that writes it, raises whenever what was read
\* back does not decode to the bytes given and reports success only when it
\* does; a write_file of a path under the shared directory writes to the local
\* disk and reports success without a read-back.
C37_WriteOutsideSharedDirIsReadBack ==
    wr.pc = "done" =>
        IF wr.file_path \in SharedPaths
        THEN ~wr.read_back /\ ~wr.raised
        ELSE VerifiedWrite

\* C37 witness: the file in the pod holds other bytes than those given, it was
\* read back, and the call raised.
C37_Witness ==
    /\ wr.pc = "done" /\ wr.file_path \notin SharedPaths
    /\ wr.read_back /\ wr.stored # wr.content /\ wr.raised

----------------------------------------------------------------------------
(* SpecDelete: the deletions of one owner and the resources of the others.  *)

DeletionOps == {"delete_testbed", "delete_all_testbeds", "cleanup_user_resources"}

\* the step is a deletion called by u
IsDeletion(u) ==
    /\ ret'.op \in DeletionOps /\ ret'.caller = u
    /\ \/ \E id \in TestbedIds : DeleteTestbed(id, u)
       \/ DeleteAllTestbeds(u)
       \/ CleanupUserResources(u)

\* the job of testbed_id and the service of its name are left as they are
ResourcesUntouched(testbed_id) ==
    /\ jobs'[testbed_id] = jobs[testbed_id]
    /\ services'[testbed_id] = services[testbed_id]

\* sandboxes are created and deleted, one by one and all of an owner at once
NextDelete ==
    \/ \E i \in Instances, u \in Users : CreateTestbed(i, u)
    \/ \E id \in TestbedIds, u \in Users : DeleteTestbed(id, u)
    \/ \E u \in Users : DeleteAllTestbeds(u)
    \/ \E u \in Users : CleanupUserResources(u)

SpecDelete == Init /\ [][NextDelete]_vars

----------------------------------------------------------------------------
(* SpecZmq: ZeroMQCommunicator, one client and one server.  Requests are    *)
(* numbered in the order of the send_request calls; a REQ socket accepts a  *)
(* send only when it awaits no reply, and a REP socket sends its reply to   *)
(* the socket the request came from.                                        *)

\* number of send_request calls
NumZmqRequests == 3

\* a message under way: the request it is, or answers, and the REQ socket it
\* came from, or goes to
Frame(request, socket, type) == [request |-> request, socket |-> socket, type |-> type]

\* zeromq_communicator.py:126 on a socket that accepts the send whatever its
\* state (ZMQ_REQ_RELAXED without ZMQ_REQ_CORRELATE)
req_send_relaxed(z, request) ==
    [z EXCEPT !.pc = "poll", !.request = request, !.sent = request,
              !.awaiting = TRUE,
              !.requests = @ \cup {Frame(request, z.socket, "request")}]

\* zeromq_communicator.py:126 and 138-141: send_multipart on the REQ socket.
\* A socket that still awaits the reply to an earlier request refuses the send
\* with ZMQError (EFSM); send_request then replaces the socket and raises.
req_send(z, request) ==
    IF z.awaiting
    THEN [z EXCEPT !.pc = "raised", !.request = request, !.sent = request,
                   !.out = "ZMQError", !.socket = @ + 1, !.awaiting = FALSE]
    ELSE [z EXCEPT !.pc = "poll", !.request = request, !.sent = request,
                   !.awaiting = TRUE,
                   !.requests = @ \cup {Frame(request, z.socket, "request")}]

\* zeromq_communicator.py:120-126
SendRequest ==
    /\ zq.pc = "idle" /\ zq.sent < NumZmqRequests
    /\ zq' = req_send(zq, zq.sent + 1)
    /\ UNCHANGED <<baseVars, grade, file, req, bulk, tree, ign, blk, plog, stitch, dj, arch, steps, sub, hdl, pa, ctx, wr>>

\* zeromq_communicator.py:146-183: the server receives a request, calls the
\* handler and sends its response, or the error response when the handler
\* raised, to the socket the request came from
HandleRequests ==
    /\ \E r \in zq.requests, type \in {"response", "error"} :
         zq' = [zq EXCEPT !.requests = @ \ {r},
                          !.replies = @ \cup {Frame(r.request, r.socket, type)}]
    /\ UNCHANGED <<baseVars, grade, file, req, bulk, tree, ign, blk, plog, stitch, dj, arch, steps, sub, hdl, pa, ctx, wr>>

\* zeromq_communicator.py:128-135: the poll shows a reply on the socket, which
\* is received and returned
ReceiveReply ==
    /\ zq.pc = "poll"
    /\ \E r \in zq.replies :
         /\ r.socket = zq.socket
         /\ zq' = [zq EXCEPT !.pc = "returned", !.awaiting = FALSE,
                             !.replies = @ \ {r}, !.out = "Message",
                             !.returned = [request |-> zq.request, reply |-> r.request,
                                           type |-> r.type]]
    /\ UNCHANGED <<baseVars, grade, file, req, bulk, tree, ign, blk, plog, stitch, dj, arch, steps, sub, hdl, pa, ctx, wr>>

\* zeromq_communicator.py:136-137, 142-144: no reply within the timeout;
\* TimeoutError is raised and the socket is left as it is
PollTimesOut ==
    /\ zq.pc = "poll"
    /\ zq' = [zq EXCEPT !.pc = "raised", !.out = "TimeoutError",
                        !.timed_out = @ \cup {zq.request}]
    /\ UNCHANGED <<baseVars, grade, file, req, bulk, tree, ign, blk, plog, stitch, dj, arch, steps, sub, hdl, pa, ctx, wr>>

\* the caller has its reply or its exception.  verify_connection replaces the
\* socket after an exception (zeromq_communicator.py:64-69, 75-80); other
\* callers do not
CallerGoesOn ==
    /\ zq.pc \in {"returned", "raised"}
    /\ \E reset_req_socket \in BOOLEAN :
         zq' = IF zq.pc = "raised" /\ reset_req_socket
               THEN [zq EXCEPT !.pc = "idle", !.socket = @ + 1, !.awaiting = FALSE]
               ELSE [zq EXCEPT !.pc = "idle"]
    /\ UNCHANGED <<baseVars, grade, file, req, bulk, tree, ign, blk, plog, stitch, dj, arch, steps, sub, hdl, pa, ctx, wr>>

ZmqNext ==
    \/ SendRequest
    \/ HandleRequests
    \/ ReceiveReply
    \/ PollTimesOut
    \/ CallerGoesOn

SpecZmq == Init /\ [][ZmqNext]_vars

----------------------------------------------------------------------------
(* The delays of the request loop (SpecRetry).                              *)

\* initial_retry_delay of _request, which no caller passes
InitialRetryDelay == 1

RECURSIVE Pow2(_)
Pow2(n) == IF n = 0 THEN 1 ELSE 2 * Pow2(n - 1)

\* the step is the sleep before the k-th retry and lasts delay seconds
IsSleepBeforeRetry(k, delay) ==
    /\ req.pc = "sleep" /\ req'.pc = "loop"
    /\ req.retries = k
    /\ req'.elapsed = req.elapsed + delay

----------------------------------------------------------------------------
(* SpecGet: sandboxes are created and deleted, the control plane brings     *)
(* them up, and they are looked up, by the manager and through the API.     *)

NextGet ==
    \/ \E i \in Instances, u \in Users : CreateTestbed(i, u)
    \/ \E id \in TestbedIds, u \in Users : DeleteTestbed(id, u)
    \/ \E id \in TestbedIds, u \in Users : GetTestbed(id, u)
    \/ \E id \in TestbedIds, u \in Users : ApiGetTestbed(id, u)
    \/ ControlPlane

SpecGet == Init /\ [][NextGet]_vars

====
